---- MODULE Spec2Model ----
(***************************************************************************)
(* pyBAR, Fei4RunBase (src/pybar/fei4_run_base.py): the shared FIFO        *)
(* readout coordinated by start_readout / stop_readout, and the run        *)
(* controller do_run with its four execution strategies.                   *)
(*                                                                         *)
(* Two state machines share the module:                                    *)
(*   SpecReadout  scan threads (or the main thread when no scan thread     *)
(*                exists) running `with self.readout(): ...` cycles;       *)
(*   SpecRun      the statements of do_run, one action per statement.      *)
(***************************************************************************)
EXTENDS Integers, Sequences, FiniteSets, TLC

\* ------------------------------------------------------------------ bounds
NumThreads == 2      \* scan threads created by do_run
MaxCycles == 2       \* readout() cycles one scan() performs at most

VARIABLES
    threaded_scan,       \* run configuration flag threaded_scan
    scan_threads,        \* self._scan_threads (names of the ExcThread objects)
    t_state,             \* per thread: "new" (not started), "alive", "dead"
    running_readout_t,   \* self._running_readout_t, a list of handles
    readout_event,       \* self._readout_event (threading.Event flag)
    readout_lock,        \* self._readout_lock: the set of its holders (empty or one caller)
    is_running,          \* self.fifo_readout.is_running
    abort_run,           \* self.abort_run (threading.Event flag)
    pc,                  \* per caller: the statement it executes next
    cycles,              \* per caller: readout() contexts entered so far
    exc,                 \* the callers in which an exception is propagating
    iv_starts,           \* reader starts since running_readout_t last became non-empty
    iv_stops,            \* reader stops since running_readout_t last became non-empty
    ro_timeout,          \* the timeout the scan passes to readout() / stop_readout()
    stop_timeout,        \* <<timeout>> of the last fifo_readout.stop call since the last start
    direct,              \* the callers inside a stop_readout call made outside readout()
    \* ---- do_run
    broadcast_commands,  \* run configuration flag broadcast_commands
    reset_rx_on_error,   \* run configuration flag reset_rx_on_error
    tx_groups,           \* self._tx_module_groups: per command line, its member modules
    run_pc,              \* the statement of do_run executed next
    outer,               \* units the outer loop of the strategy has still to visit
    unit,                \* the unit (group, round or module) of the current outer iteration
    inner,               \* handles the current inner loop has still to visit
    cur,                 \* the handle configure() / scan() of the main thread runs under
    regs,                \* per handle: the content of self._registers[handle]
    reg0,                \* the register content when do_run was entered
    mode,                \* per handle: "conf" or "run", by the last mode command sent
    stack,               \* the open register.restored() contexts: <<handle, snapshot>>
    configured,          \* the handles whose configure() has returned
    run_threads,         \* self._scan_threads as do_run builds it (thread names)
    thr,                 \* per thread name: "none", "created", "alive", "dead"
    thr_exc,             \* per thread name: ExcThread.exc ("none" or the fault kind)
    join_i,              \* position of the join loop's list iterator
    run_exc,             \* the exception propagating in do_run ("none" or its kind)
    err_queue,           \* self.err_queue
    calls,               \* the calls do_run and the scan threads made: <<operation, handle>>
    stop_run,            \* self.stop_run: "clear", "leftover" (set before do_run), "set"
    \* ---- handle_err and post_run
    he_pc,               \* per caller: the statement of handle_err it executes next
    he_fault,            \* per caller: the fault its handle_err call was given
    he_n,                \* per caller: handle_err calls made so far
    he_done,             \* the faults whose handle_err call has returned
    rx_resets,           \* the faults for which handle_err reset the receiver
    abort_calls,         \* the faults for which handle_err invoked self.abort, in order
    reported,            \* every fault put into err_queue, in order
    post_pc,             \* the statement of post_run executed next
    post_left,           \* modules the analysis loop of post_run has still to visit
    taken,               \* the entry post_run took from err_queue
    outcome,             \* what post_run raised
    \* ---- construction (_parse_module_cfgs, _set_default_cfg)
    module_cfgs,         \* self._module_cfgs restricted to the modules: the given conf
    ctor_pc,             \* the statement of the constructor executed next
    tx_left,             \* entries of the local tx_groups the loop of line 227 has to visit
    tx_module_groups,    \* self._tx_module_groups: key -> member modules
    fifo_module_groups,  \* self._fifo_module_groups: key -> member modules
    ctor_err,            \* what the constructor raised: <<class, group>>
    \* ---- raw data (handle_data, Fei4RawDataHandle)
    raw_cfgs,            \* Fei4RawDataHandle._module_cfgs: the selected modules' channels
    scan_params,         \* self._scan_parameters: per handle, the value of each parameter
    sp_calls,            \* set_scan_parameters calls made
    last_set,            \* the last set_scan_parameters call: <<handle, parameter, value>>
    raw_data_files,      \* per sink: <<append_item calls received, the last item>>
    data_calls,          \* handle_data calls made
    last_batch,          \* <<data>> of the last handle_data call
    \* ---- device handles (DutHandle, RhlHandle)
    module_names,        \* self._module_cfg[name]: the endpoints the role is bound to
    endpoint,            \* per endpoint: the content of its register
    read_result,         \* what the last read through the handle gave: [err, val]
    last_op,             \* the last operation: "none", "read", "write", "change"
    last_value,          \* the value of the last write through the handle
    \* ---- access_files
    selected,            \* selected_modules of open_files
    af_pc,               \* the statement of access_files executed next
    to_open,             \* modules the loop of open_files has still to visit
    to_close,            \* values of _raw_data_files the loop of close_files has to visit
    sinks,               \* per module: "none", "open", "closed" - its raw data file object
    file_keys,           \* the keys of self._raw_data_files
    af_exc,              \* the exception propagating in access_files
    \* ---- fei4_defines
    flavor,              \* the table walked: "fei4a" or "fei4b"
    cmd,                 \* the command whose bitstream is walked ("none": the registers)
    seg_i,               \* segments of the bitstream visited
    seg_sum,             \* the sum of their lengths
    reg_i,               \* global register entries visited
    \* ---- command encoder
    cmd_name,            \* the command to build
    cmd_fields,          \* the values given for its fields: field -> value
    cmd_pc,              \* "idle", "given", "encoded", "decoded"
    cmd_bits,            \* what encode returned: [err, bits]
    cmd_decoded,         \* what decode returned: field -> value
    \* ---- current_module_handle
    cfg_keys,            \* the keys of self._module_cfgs other than None, as character sequences
    thread_name,         \* current_thread().name of the thread reading the property
    current_handle,      \* self._current_module_handle: <<>> (None) or <<id>>
    handle_pc,           \* "idle", "call", "done"
    handle_result        \* what the property gave: [err, val], val <<>> (None) or <<id>>

\* the variables only the readout machine changes
rvars == <<scan_threads, t_state, running_readout_t, readout_event,
           readout_lock, is_running, pc, cycles, exc, iv_starts, iv_stops,
           ro_timeout, stop_timeout, direct>>

\* the variables only the constructor changes
cvars == <<module_cfgs, ctor_pc, tx_left, tx_module_groups, fifo_module_groups, ctor_err>>

\* the variables only handle_data and set_scan_parameters change
hvars == <<raw_cfgs, scan_params, sp_calls, last_set, raw_data_files, data_calls,
           last_batch>>

\* the variables only the device handles change
pvars == <<module_names, endpoint, read_result, last_op, last_value>>

\* the variables only access_files changes
fvars == <<selected, af_pc, to_open, to_close, sinks, file_keys, af_exc>>

\* the variables only the walk of the fei4_defines tables changes
tvars == <<flavor, cmd, seg_i, seg_sum, reg_i>>

\* the variables only the command encoder changes
kvars == <<cmd_name, cmd_fields, cmd_pc, cmd_bits, cmd_decoded>>

\* the variables only current_module_handle changes
nvars == <<cfg_keys, thread_name, current_handle, handle_pc, handle_result>>

\* the variables no step of a run changes
xvars == <<cvars, hvars, pvars, fvars, tvars, kvars, nvars>>

\* the variables only do_run changes
runvars == <<broadcast_commands, reset_rx_on_error, tx_groups, run_pc, outer, unit, inner,
             cur, regs, reg0, mode, stack, configured, run_threads, thr, thr_exc,
             join_i, run_exc, err_queue, calls, stop_run>>

\* the variables the readout machine leaves alone
dvars == <<runvars, xvars>>

\* the variables only handle_err and post_run change
evars == <<he_pc, he_fault, he_n, he_done, rx_resets, abort_calls, reported,
           post_pc, post_left, taken, outcome>>

vars == <<threaded_scan, abort_run, rvars, dvars, evars>>

\* --------------------------------------------------------------- callers
Threads == 1..NumThreads
\* the thread that runs do_run; it calls scan() itself when threaded_scan is off
MainThread == NumThreads + 1
Callers == Threads \cup {MainThread}

\* current_thread().name for a scan thread, current_module_handle otherwise
Handle(t) == t

\* the callers that execute scan() in the chosen mode
Scanners == IF threaded_scan THEN Threads ELSE {MainThread}

\* a removal that drops every occurrence of x
RemoveAll(s, x) == SelectSeq(s, LAMBDA y : y # x)

RECURSIVE RemoveFirst(_, _)
\* list.remove(x): drops the first occurrence of x
RemoveFirst(s, x) ==
    IF s = <<>> THEN <<>>
    ELSE IF Head(s) = x THEN Tail(s)
    ELSE <<Head(s)>> \o RemoveFirst(Tail(s), x)

Members(s) == {s[i] : i \in DOMAIN s}

\* [t.name for t in self._scan_threads if t.is_alive()]
AliveNames == {t \in scan_threads : t_state[t] = "alive"}

\* a start condition that is met as soon as any handle is registered
AnyRegistered ==
    \/ running_readout_t # <<>>
    \/ scan_threads = {}

\* the condition of line 1099
AllRegistered ==
    \/ Cardinality(Members(running_readout_t) \cap AliveNames) = Cardinality(AliveNames)
    \/ scan_threads = {}

\* the condition of line 1133
NoneRegistered ==
    \/ Cardinality(Members(running_readout_t) \cap AliveNames) = 0
    \/ scan_threads = {}

Goto(t, loc) == pc' = [pc EXCEPT ![t] = loc]

\* readout(timeout=10.0) and stop_readout(timeout=10.0): the default timeout
DefaultTimeout == 10

\* a timeout that is not zero
GraceTimeout == 5 + 5

\* readout(), line 1070: the timeout of the stop under abort
AbortTimeout == 0

\* bookkeeping of the membership intervals of running_readout_t
IntervalOpen(r) == r = <<>>
CountUp(n) == IF n < 2 THEN n + 1 ELSE n

\* a lock that never blocks
LockFreeAlways == TRUE

\* `with self._readout_lock:` can be entered: no caller holds the lock
LockFree == readout_lock = {}

\* -------------------------------------------------------------- registry
\* The module registry _set_default_cfg derives: the command-line groups in the
\* order do_run iterates them, each with its member modules.
Layouts == { << <<"m1", "m2">>, <<"m3">> >>,
             << <<"m1">>, <<"m2">> >>,
             << <<"m1", "m2">> >> }

\* "module_group_TX=" + tx, the key of a group in _tx_module_groups and _module_cfgs
GroupNames == <<"g1", "g2">>
ModuleNames == {"m1", "m2", "m3"}
Handles == ModuleNames \cup {GroupNames[i] : i \in DOMAIN GroupNames}

RegVals == {"a", "b"}
\* faults scan() raises; KeyError is what self._registers[None] raises
FaultKinds == {"RxSyncError", "FifoError", "ValueError"}

RECURSIVE Flatten(_)
Flatten(ss) == IF ss = <<>> THEN <<>> ELSE Head(ss) \o Flatten(Tail(ss))

\* a loop that visits the first group only
GroupIdsFirst == <<GroupNames[1]>>

\* a group without member modules
GroupOfNone(g) == <<>>

\* self._tx_module_groups (its keys), self._modules (its keys)
GroupIds == [i \in DOMAIN tx_groups |-> GroupNames[i]]
ModuleIds == Flatten(tx_groups)
GroupOf(g) == tx_groups[CHOOSE i \in DOMAIN tx_groups : GroupNames[i] = g]

RECURSIVE MaxLen(_)
MaxLen(ss) ==
    IF ss = <<>> THEN 0
    ELSE LET m == MaxLen(Tail(ss)) IN IF Len(Head(ss)) > m THEN Len(Head(ss)) ELSE m

\* rounds that hold the members of one group each
RoundsByGroup == tx_groups

\* itertools.izip_longest(*self._tx_module_groups.values()): round i holds the i-th
\* member of every group, None where a group has no i-th member
Rounds ==
    [i \in 1..MaxLen(tx_groups) |->
        [k \in DOMAIN tx_groups |->
            IF i <= Len(tx_groups[k]) THEN tx_groups[k][i] ELSE "None"]]

\* a fault handed to handle_err: <<caller, number of the call, exception class>>
NoFault == <<0, 0, "none">>

\* the constructor is not executing
CtorIdle ==
    /\ module_cfgs = <<>>
    /\ ctor_pc = "idle"
    /\ tx_left = {}
    /\ tx_module_groups = <<>>
    /\ fifo_module_groups = <<>>
    /\ ctor_err = <<>>

\* no raw data file is open
DataIdle ==
    /\ raw_cfgs = <<>>
    /\ scan_params = <<>>
    /\ sp_calls = 0
    /\ last_set = <<>>
    /\ raw_data_files = <<>>
    /\ data_calls = 0
    /\ last_batch = <<>>

\* no device handle is in use
ProxyIdle ==
    /\ module_names = <<>>
    /\ endpoint = <<>>
    /\ read_result = [err |-> FALSE, val |-> 0]
    /\ last_op = "none"
    /\ last_value = 0

\* access_files is not executing
FilesIdle ==
    /\ selected = {}
    /\ af_pc = "idle"
    /\ to_open = {}
    /\ to_close = {}
    /\ sinks = [m \in ModuleNames |-> "none"]
    /\ file_keys = {}
    /\ af_exc = "none"

\* no table is walked
DefsIdle ==
    /\ flavor = "fei4a"
    /\ cmd = "none"
    /\ seg_i = 0
    /\ seg_sum = 0
    /\ reg_i = 0

\* no command is built
CmdIdle ==
    /\ cmd_name = "none"
    /\ cmd_fields = <<>>
    /\ cmd_pc = "idle"
    /\ cmd_bits = [err |-> "none", bits |-> <<>>]
    /\ cmd_decoded = <<>>

\* the property current_module_handle is not read
HandleIdle ==
    /\ cfg_keys = {}
    /\ thread_name = <<>>
    /\ current_handle = <<>>
    /\ handle_pc = "idle"
    /\ handle_result = [err |-> "none", val |-> <<>>]

\* nothing but a run is executing
XIdle ==
    CtorIdle /\ DataIdle /\ ProxyIdle /\ FilesIdle /\ DefsIdle /\ CmdIdle /\ HandleIdle

\* do_run is not executing
RunIdle ==
    /\ broadcast_commands = FALSE
    /\ reset_rx_on_error = FALSE
    /\ tx_groups = << <<"m1">> >>
    /\ run_pc = "idle"
    /\ outer = <<>>
    /\ unit = <<>>
    /\ inner = <<>>
    /\ cur = "None"
    /\ reg0 = "a"
    /\ regs = [h \in Handles |-> "a"]
    /\ mode = [h \in Handles |-> "conf"]
    /\ stack = <<>>
    /\ configured = {}
    /\ run_threads = <<>>
    /\ thr = [h \in Handles |-> "none"]
    /\ thr_exc = [h \in Handles |-> "none"]
    /\ join_i = 0
    /\ run_exc = "none"
    /\ err_queue = <<>>
    /\ calls = <<>>
    /\ stop_run = "clear"

\* no handle_err call is made and post_run is not executing
ErrIdle ==
    /\ he_pc = [t \in Callers |-> "idle"]
    /\ he_fault = [t \in Callers |-> NoFault]
    /\ he_n = [t \in Callers |-> 0]
    /\ he_done = {}
    /\ rx_resets = {}
    /\ abort_calls = <<>>
    /\ reported = <<>>
    /\ post_pc = "idle"
    /\ post_left = <<>>
    /\ taken = NoFault
    /\ outcome = "none"

InitReadout ==
    /\ RunIdle
    /\ XIdle
    /\ ErrIdle
    /\ threaded_scan \in BOOLEAN
    /\ scan_threads = IF threaded_scan THEN Threads ELSE {}
    /\ t_state = [t \in Threads |-> "new"]
    /\ running_readout_t = <<>>
    /\ readout_event = FALSE
    /\ readout_lock = {}
    /\ is_running = FALSE
    /\ abort_run = FALSE
    /\ pc = [t \in Callers |->
               IF t = MainThread THEN (IF threaded_scan THEN "ctrl" ELSE "scan") ELSE "new"]
    /\ cycles = [t \in Callers |-> 0]
    /\ exc = {}
    /\ iv_starts = 0
    /\ iv_stops = 0
    /\ ro_timeout \in (IF threaded_scan THEN {DefaultTimeout} ELSE {DefaultTimeout, 3})
    /\ stop_timeout = <<>>
    /\ direct = {}

\* ------------------------------------------------------- controller side
\* do_run, `for t in self._scan_threads: t.start()`: threads start in list order
StartThread(t) ==
    /\ threaded_scan /\ t \in Threads
    /\ pc[MainThread] = "ctrl"
    /\ t_state[t] = "new"
    /\ \A u \in Threads : u < t => t_state[u] # "new"
    /\ t_state' = [t_state EXCEPT ![t] = "alive"]
    /\ Goto(t, "scan")
    /\ UNCHANGED <<readout_lock, threaded_scan, scan_threads, running_readout_t, readout_event,
                   is_running, abort_run, cycles, iv_starts, iv_stops, exc>>
    /\ UNCHANGED <<dvars, evars, ro_timeout, stop_timeout, direct>>

\* do_run, the join loop has ended: `self._scan_threads = []`
ClearThreads ==
    /\ threaded_scan /\ pc[MainThread] = "ctrl"
    /\ scan_threads # {}
    /\ \A t \in scan_threads : t_state[t] = "dead"
    /\ scan_threads' = {}
    /\ Goto(MainThread, "done")
    /\ UNCHANGED <<readout_lock, threaded_scan, t_state, running_readout_t, readout_event,
                   is_running, abort_run, cycles, iv_starts, iv_stops, exc>>
    /\ UNCHANGED <<dvars, evars, ro_timeout, stop_timeout, direct>>

\* handle_err on a fault that is not recovered in place: self.abort(...)
Abort ==
    /\ ~abort_run
    /\ \E t \in Scanners : pc[t] \notin {"new", "dead", "done"}
    /\ abort_run' = TRUE
    /\ UNCHANGED <<readout_lock, threaded_scan, scan_threads, t_state, running_readout_t, readout_event,
                   is_running, pc, cycles, iv_starts, iv_stops, exc>>
    /\ UNCHANGED <<dvars, evars, ro_timeout, stop_timeout, direct>>

\* ------------------------------------------------------------- readout()
\* scan() enters `with self.readout():`, which calls start_readout
BeginReadout(t) ==
    /\ t \in Scanners /\ pc[t] = "scan"
    /\ cycles[t] < MaxCycles
    /\ cycles' = [cycles EXCEPT ![t] = @ + 1]
    /\ Goto(t, "sr_append")
    /\ UNCHANGED <<readout_lock, threaded_scan, scan_threads, t_state, running_readout_t, readout_event,
                   is_running, abort_run, iv_starts, iv_stops, exc>>
    /\ UNCHANGED <<dvars, evars, ro_timeout, stop_timeout, direct>>

\* scan() returns: the scan thread ends (ExcThread.run), or scan() returns to do_run
FinishScan(t) ==
    /\ t \in Scanners /\ pc[t] = "scan"
    /\ IF t \in Threads
       THEN /\ t_state' = [t_state EXCEPT ![t] = "dead"]
            /\ Goto(t, "dead")
       ELSE /\ Goto(t, "done")
            /\ UNCHANGED t_state
    /\ UNCHANGED <<readout_lock, threaded_scan, scan_threads, running_readout_t, readout_event,
                   is_running, abort_run, cycles, iv_starts, iv_stops, exc>>
    /\ UNCHANGED <<dvars, evars, ro_timeout, stop_timeout, direct>>

\* ------------------------------------------------------- start_readout
\* A scan thread that raises ends (ExcThread.run keeps the exception); the main
\* thread propagates it to do_run.
Raise(t) ==
    /\ Goto(t, "raised")
    /\ t_state' = IF t \in Threads THEN [t_state EXCEPT ![t] = "dead"] ELSE t_state

\* lines 1084-1095: the two checks, then the handle is appended under the lock.
\* With scan threads the event is cleared after the lock is released (SrClear);
\* without, it is cleared inside the locked block.
SrAppend(t) ==
    /\ pc[t] = "sr_append"
    /\ IF scan_threads # {} /\ (Handle(t) \notin scan_threads
                                \/ Handle(t) \in Members(running_readout_t))
       THEN /\ Raise(t)
            /\ UNCHANGED <<running_readout_t, readout_event, iv_starts, iv_stops>>
       ELSE /\ LockFree
            /\ running_readout_t' = Append(running_readout_t, Handle(t))
            /\ iv_starts' = IF IntervalOpen(running_readout_t) THEN 0 ELSE iv_starts
            /\ iv_stops' = IF IntervalOpen(running_readout_t) THEN 0 ELSE iv_stops
            /\ IF scan_threads # {}
               THEN Goto(t, "sr_clear") /\ UNCHANGED readout_event
               ELSE Goto(t, "sr_wait") /\ readout_event' = FALSE
            /\ UNCHANGED t_state
    /\ UNCHANGED <<readout_lock, threaded_scan, scan_threads, is_running, abort_run, cycles, exc>>
    /\ UNCHANGED <<dvars, evars, ro_timeout, stop_timeout, direct>>

\* line 1091
SrClear(t) ==
    /\ pc[t] = "sr_clear"
    /\ readout_event' = FALSE
    /\ Goto(t, "sr_wait")
    /\ UNCHANGED <<readout_lock, threaded_scan, scan_threads, t_state, running_readout_t,
                   is_running, abort_run, cycles, iv_starts, iv_stops, exc>>
    /\ UNCHANGED <<dvars, evars, ro_timeout, stop_timeout, direct>>

\* lines 1096-1098: wait(0.01) returns the flag; on a timeout the abort flag is polled
SrWait(t) ==
    /\ pc[t] = "sr_wait"
    /\ IF readout_event \/ abort_run
       THEN Goto(t, "reading")
       ELSE Goto(t, "sr_cond")
    /\ UNCHANGED <<readout_lock, threaded_scan, scan_threads, t_state, running_readout_t,
                   readout_event, is_running, abort_run, cycles, iv_starts, iv_stops, exc>>
    /\ UNCHANGED <<dvars, evars, ro_timeout, stop_timeout, direct>>

\* line 1099, evaluated without the lock
SrCond(t) ==
    /\ pc[t] = "sr_cond"
    /\ IF AllRegistered THEN Goto(t, "sr_lock") ELSE Goto(t, "sr_wait")
    /\ UNCHANGED <<readout_lock, threaded_scan, scan_threads, t_state, running_readout_t,
                   readout_event, is_running, abort_run, cycles, iv_starts, iv_stops, exc>>
    /\ UNCHANGED <<dvars, evars, ro_timeout, stop_timeout, direct>>

\* line 1100: `with self._readout_lock:` blocks until the lock is free
SrLock(t) ==
    /\ pc[t] = "sr_lock"
    /\ LockFree
    /\ readout_lock' = {t}
    /\ Goto(t, "sr_crit")
    /\ UNCHANGED <<threaded_scan, scan_threads, t_state, running_readout_t,
                   readout_event, is_running, abort_run, cycles, iv_starts, iv_stops, exc>>
    /\ UNCHANGED <<dvars, evars, ro_timeout, stop_timeout, direct>>

\* lines 1101-1115: start the reader unless it runs, set the event, release, break
SrCrit(t) ==
    /\ pc[t] = "sr_crit"
    /\ IF ~is_running
       THEN /\ is_running' = TRUE
            /\ readout_event' = TRUE
            /\ iv_starts' = CountUp(iv_starts)
            /\ stop_timeout' = <<>>
       ELSE UNCHANGED <<is_running, readout_event, iv_starts, stop_timeout>>
    /\ readout_lock' = {}
    /\ Goto(t, "reading")
    /\ UNCHANGED <<threaded_scan, scan_threads, t_state, running_readout_t,
                   abort_run, cycles, iv_stops, exc>>
    /\ UNCHANGED <<dvars, evars, ro_timeout, direct>>

\* -------------------------------------------------------- stop_readout
\* a handle that never reports itself absent
NotReadingNever(t) == FALSE

\* line 1120, and list.remove raising ValueError (lines 1124, 1128): the handle
\* of the caller is not in running_readout_t
NotReading(t) == Handle(t) \notin Members(running_readout_t)

\* where stop_readout returns to: the scan code, or the finally clause of readout()
AfterStop(t) == IF t \in direct THEN "scan" ELSE "ro_finally"

\* scan() calls stop_readout itself, outside a readout() context
DirectStop(t) ==
    /\ t \in Scanners /\ pc[t] = "scan"
    /\ cycles[t] < MaxCycles
    /\ cycles' = [cycles EXCEPT ![t] = @ + 1]
    /\ direct' = direct \cup {t}
    /\ Goto(t, "st_remove")
    /\ UNCHANGED <<readout_lock, threaded_scan, scan_threads, t_state, running_readout_t,
                   readout_event, is_running, abort_run, iv_starts, iv_stops, exc>>
    /\ UNCHANGED <<dvars, evars, ro_timeout, stop_timeout>>

\* scan() calls start_readout again inside a readout() context
DirectStart(t) ==
    /\ t \in Scanners /\ pc[t] = "reading"
    /\ cycles[t] < MaxCycles
    /\ cycles' = [cycles EXCEPT ![t] = @ + 1]
    /\ Goto(t, "sr_append")
    /\ UNCHANGED <<readout_lock, threaded_scan, scan_threads, t_state, running_readout_t,
                   readout_event, is_running, abort_run, iv_starts, iv_stops, exc>>
    /\ UNCHANGED <<dvars, evars, ro_timeout, stop_timeout, direct>>

\* readout(): the body of the with statement has ended, stop_readout is called
EndReading(t) ==
    /\ pc[t] = "reading"
    /\ Goto(t, "st_remove")
    /\ UNCHANGED <<readout_lock, threaded_scan, scan_threads, t_state, running_readout_t,
                   readout_event, is_running, abort_run, cycles, iv_starts, iv_stops, exc>>
    /\ UNCHANGED <<dvars, evars, ro_timeout, stop_timeout, direct>>

\* readout(), lines 1061-1064: the body of the with statement raises; the
\* exception is thrown at the yield, stop_readout of line 1063 is passed over
\* and the finally clause is entered
BodyRaises(t) ==
    /\ pc[t] = "reading"
    /\ exc' = exc \cup {t}
    /\ Goto(t, "ro_finally")
    /\ UNCHANGED <<readout_lock, threaded_scan, scan_threads, t_state, running_readout_t,
                   readout_event, is_running, abort_run, cycles, iv_starts, iv_stops>>
    /\ UNCHANGED <<dvars, evars, ro_timeout, stop_timeout, direct>>

\* lines 1118-1124 and 1127-1128: the two checks, then list.remove under the lock
\* (list.remove raises ValueError for a handle that is not in the list)
StRemove(t) ==
    /\ pc[t] = "st_remove"
    /\ IF \/ scan_threads # {} /\ Handle(t) \notin scan_threads
          \/ NotReading(t)
       THEN /\ IF t \in direct
               THEN Raise(t) /\ UNCHANGED exc
               ELSE /\ exc' = exc \cup {t}
                    /\ Goto(t, "ro_finally")
                    /\ UNCHANGED t_state
            /\ direct' = direct \ {t}
            /\ UNCHANGED running_readout_t
       ELSE /\ LockFree
            /\ running_readout_t' = RemoveFirst(running_readout_t, Handle(t))
            /\ Goto(t, "st_clear")
            /\ UNCHANGED <<exc, t_state, direct>>
    /\ UNCHANGED <<readout_lock, threaded_scan, scan_threads, readout_event,
                   is_running, abort_run, cycles, iv_starts, iv_stops>>
    /\ UNCHANGED <<dvars, evars, ro_timeout, stop_timeout>>

\* lines 1125 and 1129
StClear(t) ==
    /\ pc[t] = "st_clear"
    /\ readout_event' = FALSE
    /\ Goto(t, "st_wait")
    /\ UNCHANGED <<readout_lock, threaded_scan, scan_threads, t_state, running_readout_t,
                   is_running, abort_run, cycles, iv_starts, iv_stops, exc>>
    /\ UNCHANGED <<dvars, evars, ro_timeout, stop_timeout, direct>>

\* lines 1130-1132
StWait(t) ==
    /\ pc[t] = "st_wait"
    /\ IF readout_event \/ abort_run
       THEN Goto(t, AfterStop(t)) /\ direct' = direct \ {t}
       ELSE Goto(t, "st_cond") /\ UNCHANGED direct
    /\ UNCHANGED <<readout_lock, threaded_scan, scan_threads, t_state, running_readout_t,
                   readout_event, is_running, abort_run, cycles, iv_starts, iv_stops, exc>>
    /\ UNCHANGED <<dvars, evars, ro_timeout, stop_timeout>>

\* line 1133, evaluated without the lock
StCond(t) ==
    /\ pc[t] = "st_cond"
    /\ IF NoneRegistered THEN Goto(t, "st_lock") ELSE Goto(t, "st_wait")
    /\ UNCHANGED <<readout_lock, threaded_scan, scan_threads, t_state, running_readout_t,
                   readout_event, is_running, abort_run, cycles, iv_starts, iv_stops, exc>>
    /\ UNCHANGED <<dvars, evars, ro_timeout, stop_timeout, direct>>

\* line 1134
StLock(t) ==
    /\ pc[t] = "st_lock"
    /\ LockFree
    /\ readout_lock' = {t}
    /\ Goto(t, "st_crit")
    /\ UNCHANGED <<threaded_scan, scan_threads, t_state, running_readout_t,
                   readout_event, is_running, abort_run, cycles, iv_starts, iv_stops, exc>>
    /\ UNCHANGED <<dvars, evars, ro_timeout, stop_timeout, direct>>

\* lines 1135-1140: stop the reader if it runs, set the event, release, break
StCrit(t) ==
    /\ pc[t] = "st_crit"
    /\ IF is_running
       THEN /\ is_running' = FALSE
            /\ readout_event' = TRUE
            /\ iv_stops' = CountUp(iv_stops)
            /\ stop_timeout' = <<ro_timeout>>
       ELSE UNCHANGED <<is_running, readout_event, iv_stops, stop_timeout>>
    /\ readout_lock' = {}
    /\ Goto(t, AfterStop(t))
    /\ direct' = direct \ {t}
    /\ UNCHANGED <<threaded_scan, scan_threads, t_state, running_readout_t,
                   abort_run, cycles, iv_starts, exc>>
    /\ UNCHANGED <<dvars, evars, ro_timeout>>

\* readout(), lines 1064-1067: the finally clause polls the abort flag; without
\* abort the context is left (and a pending exception propagates)
RoFinally(t) ==
    /\ pc[t] = "ro_finally"
    /\ IF abort_run
       THEN Goto(t, "ro_lock") /\ UNCHANGED t_state
       ELSE IF t \in exc THEN Raise(t)
       ELSE Goto(t, "scan") /\ UNCHANGED t_state
    /\ UNCHANGED <<readout_lock, threaded_scan, scan_threads, running_readout_t,
                   readout_event, is_running, abort_run, cycles, iv_starts, iv_stops, exc>>
    /\ UNCHANGED <<dvars, evars, ro_timeout, stop_timeout, direct>>

\* line 1068
RoLock(t) ==
    /\ pc[t] = "ro_lock"
    /\ LockFree
    /\ readout_lock' = {t}
    /\ Goto(t, "ro_crit")
    /\ UNCHANGED <<threaded_scan, scan_threads, t_state, running_readout_t,
                   readout_event, is_running, abort_run, cycles, iv_starts, iv_stops, exc>>
    /\ UNCHANGED <<dvars, evars, ro_timeout, stop_timeout, direct>>

\* lines 1069-1070: the reader is stopped with timeout 0 if it still runs
RoCrit(t) ==
    /\ pc[t] = "ro_crit"
    /\ IF is_running
       THEN /\ is_running' = FALSE
            /\ iv_stops' = CountUp(iv_stops)
            /\ stop_timeout' = <<AbortTimeout>>
       ELSE UNCHANGED <<is_running, iv_stops, stop_timeout>>
    /\ readout_lock' = {}
    /\ IF t \in exc THEN Raise(t) ELSE Goto(t, "scan") /\ UNCHANGED t_state
    /\ UNCHANGED <<threaded_scan, scan_threads, running_readout_t,
                   readout_event, abort_run, cycles, iv_starts, exc>>
    /\ UNCHANGED <<dvars, evars, ro_timeout, direct>>

ReadoutStep(t) ==
    \/ BeginReadout(t) \/ FinishScan(t) \/ DirectStart(t) \/ DirectStop(t)
    \/ SrAppend(t) \/ SrClear(t) \/ SrWait(t) \/ SrCond(t) \/ SrLock(t) \/ SrCrit(t)
    \/ EndReading(t)
    \/ StRemove(t) \/ StClear(t) \/ StWait(t) \/ StCond(t) \/ StLock(t) \/ StCrit(t)
    \/ RoFinally(t) \/ RoLock(t) \/ RoCrit(t)

NextReadout ==
    \/ \E t \in Threads : StartThread(t)
    \/ ClearThreads
    \/ Abort
    \/ \E t \in Callers : ReadoutStep(t)

SpecReadout == InitReadout /\ [][NextReadout]_vars

\* the readout with bodies of `with self.readout()` that may raise
NextReadoutExc ==
    \/ NextReadout
    \/ \E t \in Callers : BodyRaises(t)

SpecReadoutExc == InitReadout /\ [][NextReadoutExc]_vars

\* =================================================================== do_run
\* One action per statement of do_run.  configure() and scan() are user code:
\* each writes any value to the registers of the handle it runs under, scan() may
\* raise.  The abort flag may be set at any moment by another thread (RunAbort).

cfgw == <<threaded_scan, broadcast_commands, reset_rx_on_error, tx_groups, reg0, xvars>>
cfgv == <<cfgw, stop_run>>
loopv == <<outer, unit, inner>>
hwv == <<regs, mode, stack, configured>>
thrv == <<run_threads, thr, thr_exc, join_i>>
errv == <<run_exc, err_queue, abort_run>>

\* the readout machine at rest
ReadoutIdle ==
    /\ scan_threads = {}
    /\ t_state = [t \in Threads |-> "new"]
    /\ running_readout_t = <<>>
    /\ readout_event = FALSE
    /\ readout_lock = {}
    /\ is_running = FALSE
    /\ pc = [t \in Callers |-> "new"]
    /\ cycles = [t \in Callers |-> 0]
    /\ exc = {}
    /\ iv_starts = 0
    /\ iv_stops = 0
    /\ ro_timeout = DefaultTimeout
    /\ stop_timeout = <<>>
    /\ direct = {}

InitRun ==
    /\ ReadoutIdle
    /\ XIdle
    /\ ErrIdle
    /\ threaded_scan \in BOOLEAN
    /\ broadcast_commands \in BOOLEAN
    /\ reset_rx_on_error \in BOOLEAN
    /\ tx_groups \in Layouts
    /\ abort_run = FALSE
    /\ run_pc = "start"
    /\ outer = <<>>
    /\ unit = <<>>
    /\ inner = <<>>
    /\ cur = "None"
    /\ reg0 \in RegVals
    /\ regs = [h \in Handles |-> reg0]
    /\ mode = [h \in Handles |-> "conf"]
    /\ stack = <<>>
    /\ configured = {}
    /\ run_threads = <<>>
    /\ thr = [h \in Handles |-> "none"]
    /\ thr_exc = [h \in Handles |-> "none"]
    /\ join_i = 0
    /\ run_exc = "none"
    /\ err_queue = <<>>
    /\ calls = <<>>
    /\ stop_run \in {"clear", "leftover"}

\* `with self.register.restored(name=self.run_number)` entered under handle h:
\* a restore point holding the current register content is created
Snapshot(h) == Append(stack, <<h, regs[h]>>)

RECURSIVE Unwind(_, _)
\* the contexts of st are left, last entered first: each restores its snapshot
Unwind(r, st) ==
    IF st = <<>> THEN r
    ELSE Unwind([r EXCEPT ![st[Len(st)][1]] = st[Len(st)][2]], SubSeq(st, 1, Len(st) - 1))

\* the units of s in the opposite order
UnitsReversed(s) == [i \in DOMAIN s |-> <<s[Len(s) + 1 - i]>>]

\* one single-element unit per entry of s
Units(s) == [i \in DOMAIN s |-> <<s[i]>>]

\* the receiver and the FIFO reset before the unit is put in run mode
ResetThenRunMode(h) == << <<"reset", "None">>, <<"set_run_mode", h>> >>

\* lines 693-698, 725-730 and 771-775: register_utils.set_run_mode() under
\* handle h, then fifo_readout.reset_rx() and reset_fifo()
RunModeThenReset(h) == << <<"set_run_mode", h>>, <<"reset", "None">> >>

\* a recovery that ignores reset_rx_on_error
RecoveredAlways(kind) == kind \in {"RxSyncError", "EightbTenbError"}

\* handle_err, line 857: the fault is recovered in place
Recovered(kind) == reset_rx_on_error /\ kind \in {"RxSyncError", "EightbTenbError"}

\* handle_err, lines 857-864, for a fault of the given kind
HandleErr(kind) ==
    IF Recovered(kind)
    THEN UNCHANGED <<abort_run, err_queue>>
    ELSE /\ abort_run' = TRUE
         /\ err_queue' = Append(err_queue, <<MainThread, 0 - Len(err_queue), kind>>)

\* another thread (the readout's errback, the run manager) sets the abort flag
RunAbort ==
    /\ run_pc \notin {"idle", "start", "returned", "raised"}
    /\ ~abort_run
    /\ abort_run' = TRUE
    /\ UNCHANGED <<cfgv, rvars, evars, calls, run_pc, loopv, cur, hwv, thrv, run_exc, err_queue>>

\* lines 625-626, 709-710: the strategy is chosen by the two flags
DoRunStart ==
    /\ run_pc = "start"
    /\ IF broadcast_commands
       THEN IF threaded_scan
            THEN /\ run_pc' = "bt_cfg"
                 /\ inner' = GroupIds \o ModuleIds
                 /\ UNCHANGED outer
            ELSE /\ run_pc' = "bs_outer"
                 /\ outer' = Units(GroupIds)
                 /\ UNCHANGED inner
       ELSE IF threaded_scan
            THEN /\ run_pc' = "it_outer"
                 /\ outer' = Rounds
                 /\ UNCHANGED inner
            ELSE /\ run_pc' = "is_outer"
                 /\ outer' = Units(ModuleIds)
                 /\ UNCHANGED inner
    /\ UNCHANGED <<cfgv, rvars, evars, calls, unit, cur, hwv, thrv, errv>>

\* ------------------------------------------------- broadcast + threaded
\* lines 630-637: the abort flag ends the loop; else the restore point of the
\* next handle is pushed on the ExitStack and configure() is called
BtCfgNext ==
    /\ run_pc = "bt_cfg"
    /\ IF inner = <<>> \/ abort_run
       THEN /\ run_pc' = "bt_runmode"
            /\ inner' = GroupIds
            /\ UNCHANGED <<cur, stack>>
       ELSE /\ stack' = Snapshot(Head(inner))
            /\ cur' = Head(inner)
            /\ inner' = Tail(inner)
            /\ run_pc' = "bt_configure"
    /\ UNCHANGED <<cfgv, rvars, evars, calls, outer, unit, regs, mode, configured, thrv, errv>>

\* line 637: configure() returns
BtConfigure ==
    /\ run_pc = "bt_configure"
    /\ \E v \in RegVals : regs' = [regs EXCEPT ![cur] = v]
    /\ configured' = configured \cup {cur}
    /\ calls' = Append(calls, <<"configure", cur>>)
    /\ run_pc' = "bt_cfg"
    /\ UNCHANGED <<cfgv, rvars, evars, loopv, cur, mode, stack, thrv, errv>>

\* lines 638-651: every group is put in run mode unless the abort flag ends the
\* loop; then the receiver and the FIFO are reset and _scan_threads is emptied
BtRunMode ==
    /\ run_pc = "bt_runmode"
    /\ IF inner = <<>> \/ abort_run
       THEN /\ run_pc' = "bt_create"
            /\ inner' = GroupIds
            /\ run_threads' = <<>>
            /\ calls' = Append(calls, <<"reset", "None">>)
            /\ UNCHANGED mode
       ELSE /\ mode' = [mode EXCEPT ![Head(inner)] = "run"]
            /\ calls' = Append(calls, <<"set_run_mode", Head(inner)>>)
            /\ inner' = Tail(inner)
            /\ UNCHANGED <<run_pc, run_threads>>
    /\ UNCHANGED <<cfgv, rvars, evars, outer, unit, cur, regs, stack, configured,
                   thr, thr_exc, join_i, errv>>

\* lines 652-657: one ExcThread per group unless the abort flag ends the loop
BtCreate ==
    /\ run_pc = "bt_create"
    /\ IF inner = <<>> \/ abort_run
       THEN /\ run_pc' = "start_threads"
            /\ UNCHANGED <<inner, run_threads, thr, calls>>
       ELSE /\ run_threads' = Append(run_threads, Head(inner))
            /\ calls' = Append(calls, <<"create", Head(inner)>>)
            /\ thr' = [thr EXCEPT ![Head(inner)] = "created"]
            /\ inner' = Tail(inner)
            /\ UNCHANGED run_pc
    /\ UNCHANGED <<cfgv, rvars, evars, outer, unit, cur, hwv, thr_exc, join_i, errv>>

\* lines 673-678: the groups are set to conf mode unless the abort flag ends the loop
BtConf ==
    /\ run_pc = "bt_conf"
    /\ IF inner = <<>> \/ abort_run
       THEN /\ run_pc' = "returned"
            /\ UNCHANGED <<inner, mode, calls>>
       ELSE /\ mode' = [mode EXCEPT ![Head(inner)] = "conf"]
            /\ calls' = Append(calls, <<"set_conf_mode", Head(inner)>>)
            /\ inner' = Tail(inner)
            /\ UNCHANGED run_pc
    /\ UNCHANGED <<cfgv, rvars, evars, outer, unit, cur, regs, stack, configured, thrv, errv>>

\* ------------------------------------------------- the scan threads
\* lines 658-659 and 738-739: `for t in self._scan_threads: t.start()`
StartScanThread ==
    /\ run_pc = "start_threads"
    /\ IF \E i \in DOMAIN run_threads : thr[run_threads[i]] = "created"
       THEN LET i == CHOOSE i \in DOMAIN run_threads :
                        /\ thr[run_threads[i]] = "created"
                        /\ \A j \in 1..(i - 1) : thr[run_threads[j]] # "created"
            IN  /\ thr' = [thr EXCEPT ![run_threads[i]] = "alive"]
                /\ calls' = Append(calls, <<"start", run_threads[i]>>)
                /\ UNCHANGED run_pc
       ELSE /\ run_pc' = "join_while"
            /\ UNCHANGED <<thr, calls>>
    /\ UNCHANGED <<cfgv, rvars, evars, loopv, cur, hwv, run_threads, thr_exc, join_i, errv>>

\* ExcThread.run: scan() runs in the thread named h, under that handle, and
\* returns or raises; the exception is kept in self.exc
ThreadScan(h) ==
    /\ thr[h] = "alive"
    /\ calls' = Append(calls, <<"scan", h>>)
    /\ \E v \in RegVals : regs' = [regs EXCEPT ![h] = v]
    /\ \E k \in FaultKinds \cup {"none"} : thr_exc' = [thr_exc EXCEPT ![h] = k]
    /\ thr' = [thr EXCEPT ![h] = "dead"]
    /\ \E s \in {stop_run, "set"} : stop_run' = s
    /\ UNCHANGED <<cfgw, rvars, evars, run_pc, loopv, cur, mode, stack, configured,
                   run_threads, join_i, errv>>

\* lines 660 and 740: `while any([t.is_alive() for t in self._scan_threads])`
JoinWhile ==
    /\ run_pc = "join_while"
    /\ IF \E i \in DOMAIN run_threads : thr[run_threads[i]] = "alive"
       THEN run_pc' = "join_for" /\ join_i' = 1
       ELSE run_pc' = "joined" /\ UNCHANGED join_i
    /\ UNCHANGED <<cfgv, rvars, evars, calls, loopv, cur, hwv, run_threads, thr, thr_exc, errv>>

\* lines 663-668 and 743-748: t.join(0.01) re-raises the thread's exception; the
\* thread is then removed from the list being iterated and handle_err is called
JoinFor ==
    /\ run_pc = "join_for"
    /\ IF join_i > Len(run_threads)
       THEN /\ run_pc' = "join_while"
            /\ UNCHANGED <<run_threads, join_i, abort_run, err_queue>>
       ELSE LET t == run_threads[join_i] IN
            /\ join_i' = join_i + 1
            /\ UNCHANGED run_pc
            /\ IF thr_exc[t] # "none"
               THEN /\ run_threads' = [i \in 1..(Len(run_threads) - 1) |->
                                         IF i < join_i THEN run_threads[i]
                                         ELSE run_threads[i + 1]]
                    /\ HandleErr(thr_exc[t])
               ELSE UNCHANGED <<run_threads, abort_run, err_queue>>
    /\ UNCHANGED <<cfgv, rvars, evars, calls, loopv, cur, hwv, thr, thr_exc, run_exc>>

\* lines 672 and 752, and the end of `with contextlib.ExitStack()`: the list is
\* emptied and every restore point of the stack is restored
Joined ==
    /\ run_pc = "joined"
    /\ run_threads' = <<>>
    /\ regs' = Unwind(regs, stack)
    /\ stack' = <<>>
    /\ IF broadcast_commands
       THEN run_pc' = "bt_conf" /\ inner' = GroupIds
       ELSE run_pc' = "it_conf" /\ inner' = unit
    /\ UNCHANGED <<cfgv, rvars, evars, calls, outer, unit, cur, mode, configured,
                   thr, thr_exc, join_i, errv>>

\* ------------------------------------------------ broadcast + sequential
\* lines 680-684
BsOuter ==
    /\ run_pc = "bs_outer"
    /\ IF outer = <<>> \/ abort_run
       THEN /\ run_pc' = "returned"
            /\ UNCHANGED loopv
       ELSE /\ unit' = Head(outer)
            /\ outer' = Tail(outer)
            /\ inner' = Head(outer) \o GroupOf(Head(outer)[1])
            /\ run_pc' = "bs_inner"
    /\ UNCHANGED <<cfgv, rvars, evars, calls, cur, hwv, thrv, errv>>

\* lines 684-691: the group handle first, then its members
BsInner ==
    /\ run_pc = "bs_inner"
    /\ IF inner = <<>> \/ abort_run
       THEN /\ run_pc' = "bs_runmode"
            /\ UNCHANGED <<inner, cur, stack>>
       ELSE /\ stack' = Snapshot(Head(inner))
            /\ cur' = Head(inner)
            /\ inner' = Tail(inner)
            /\ run_pc' = "bs_configure"
    /\ UNCHANGED <<cfgv, rvars, evars, calls, outer, unit, regs, mode, configured, thrv, errv>>

\* line 691
BsConfigure ==
    /\ run_pc = "bs_configure"
    /\ \E v \in RegVals : regs' = [regs EXCEPT ![cur] = v]
    /\ configured' = configured \cup {cur}
    /\ calls' = Append(calls, <<"configure", cur>>)
    /\ run_pc' = "bs_inner"
    /\ UNCHANGED <<cfgv, rvars, evars, loopv, cur, mode, stack, thrv, errv>>

\* lines 692-703: the group is put in run mode, receiver and FIFO are reset and
\* scan() is called under the group handle
BsRunMode ==
    /\ run_pc = "bs_runmode"
    /\ calls' = calls \o RunModeThenReset(unit[1])
    /\ mode' = [mode EXCEPT ![unit[1]] = "run"]
    /\ cur' = unit[1]
    /\ stop_run' = "clear"
    /\ run_pc' = "bs_scan"
    /\ UNCHANGED <<cfgw, rvars, evars, loopv, regs, stack, configured, thrv, errv>>

\* line 703: scan() returns or raises
BsScan ==
    /\ run_pc = "bs_scan"
    /\ \E v \in RegVals : regs' = [regs EXCEPT ![cur] = v]
    /\ \E k \in FaultKinds \cup {"none"} : run_exc' = k
    /\ run_pc' = "bs_exit"
    /\ \E s \in {stop_run, "set"} : stop_run' = s
    /\ calls' = Append(calls, <<"scan", cur>>)
    /\ UNCHANGED <<cfgw, rvars, evars, loopv, cur, mode, stack, configured, thrv,
                   err_queue, abort_run>>

\* the end of the `with contextlib.ExitStack()` block of line 683, left normally
\* or by the exception of scan(), which then leaves do_run
BsExit ==
    /\ run_pc = "bs_exit"
    /\ regs' = Unwind(regs, stack)
    /\ stack' = <<>>
    /\ run_pc' = IF run_exc = "none" THEN "bs_conf" ELSE "raised"
    /\ UNCHANGED <<cfgv, rvars, evars, calls, loopv, cur, mode, configured, thrv, errv>>

\* lines 705-707
BsConf ==
    /\ run_pc = "bs_conf"
    /\ calls' = Append(calls, <<"set_conf_mode", unit[1]>>)
    /\ mode' = [mode EXCEPT ![unit[1]] = "conf"]
    /\ run_pc' = "bs_outer"
    /\ UNCHANGED <<cfgv, rvars, evars, loopv, cur, regs, stack, configured, thrv, errv>>

\* ------------------------------------------------ individual + threaded
\* lines 712-715: one round per iteration
ItOuter ==
    /\ run_pc = "it_outer"
    /\ IF outer = <<>> \/ abort_run
       THEN /\ run_pc' = "returned"
            /\ UNCHANGED loopv
       ELSE /\ unit' = Head(outer)
            /\ outer' = Tail(outer)
            /\ inner' = Head(outer)
            /\ run_pc' = "it_inner"
    /\ UNCHANGED <<cfgv, rvars, evars, calls, cur, hwv, thrv, errv>>

\* lines 716-723: the round's modules; for the fill value None of izip_longest
\* self.register raises KeyError (self._registers has no entry None)
ItInner ==
    /\ run_pc = "it_inner"
    /\ IF inner = <<>> \/ abort_run
       THEN /\ run_pc' = "start_threads"
            /\ stop_run' = "clear"
            /\ UNCHANGED <<inner, cur, stack, run_exc>>
       ELSE IF Head(inner) = "None"
       THEN /\ run_exc' = "KeyError"
            /\ run_pc' = "it_unwind"
            /\ UNCHANGED <<inner, cur, stack, stop_run>>
       ELSE /\ stack' = Snapshot(Head(inner))
            /\ cur' = Head(inner)
            /\ inner' = Tail(inner)
            /\ run_pc' = "it_configure"
            /\ UNCHANGED <<run_exc, stop_run>>
    /\ UNCHANGED <<cfgw, rvars, evars, calls, outer, unit, regs, mode, configured, thrv,
                   err_queue, abort_run>>

\* line 723
ItConfigure ==
    /\ run_pc = "it_configure"
    /\ \E v \in RegVals : regs' = [regs EXCEPT ![cur] = v]
    /\ configured' = configured \cup {cur}
    /\ calls' = Append(calls, <<"configure", cur>>)
    /\ run_pc' = "it_runmode"
    /\ UNCHANGED <<cfgv, rvars, evars, loopv, cur, mode, stack, thrv, errv>>

\* lines 725-733: run mode, reset of receiver and FIFO, the module's ExcThread
ItRunMode ==
    /\ run_pc = "it_runmode"
    /\ calls' = calls \o RunModeThenReset(cur) \o << <<"create", cur>> >>
    /\ mode' = [mode EXCEPT ![cur] = "run"]
    /\ run_threads' = Append(run_threads, cur)
    /\ thr' = [thr EXCEPT ![cur] = "created"]
    /\ run_pc' = "it_inner"
    /\ UNCHANGED <<cfgv, rvars, evars, loopv, cur, regs, stack, configured,
                   thr_exc, join_i, errv>>

\* the ExitStack of line 715 left by the KeyError, which then leaves do_run
ItUnwind ==
    /\ run_pc = "it_unwind"
    /\ regs' = Unwind(regs, stack)
    /\ stack' = <<>>
    /\ run_pc' = "raised"
    /\ UNCHANGED <<cfgv, rvars, evars, calls, loopv, cur, mode, configured, thrv, errv>>

\* lines 754-759
ItConf ==
    /\ run_pc = "it_conf"
    /\ IF inner = <<>> \/ abort_run
       THEN /\ run_pc' = "it_outer"
            /\ UNCHANGED <<inner, mode, calls>>
       ELSE /\ mode' = [mode EXCEPT ![Head(inner)] = "conf"]
            /\ calls' = Append(calls, <<"set_conf_mode", Head(inner)>>)
            /\ inner' = Tail(inner)
            /\ UNCHANGED run_pc
    /\ UNCHANGED <<cfgv, rvars, evars, outer, unit, cur, regs, stack, configured, thrv, errv>>

\* ---------------------------------------------- individual + sequential
\* lines 761-769: the next module unless the abort flag ends the loop
IsOuter ==
    /\ run_pc = "is_outer"
    /\ IF outer = <<>> \/ abort_run
       THEN /\ run_pc' = "returned"
            /\ UNCHANGED <<loopv, cur, stack, calls, stop_run>>
       ELSE /\ unit' = Head(outer)
            /\ outer' = Tail(outer)
            /\ cur' = Head(outer)[1]
            /\ stack' = Snapshot(Head(outer)[1])
            /\ calls' = Append(calls, <<"snapshot", Head(outer)[1]>>)
            /\ stop_run' = "clear"
            /\ run_pc' = "is_configure"
            /\ UNCHANGED inner
    /\ UNCHANGED <<cfgw, rvars, evars, regs, mode, configured, thrv, errv>>

\* line 769
IsConfigure ==
    /\ run_pc = "is_configure"
    /\ \E v \in RegVals : regs' = [regs EXCEPT ![cur] = v]
    /\ configured' = configured \cup {cur}
    /\ calls' = Append(calls, <<"configure", cur>>)
    /\ run_pc' = "is_runmode"
    /\ UNCHANGED <<cfgv, rvars, evars, loopv, cur, mode, stack, thrv, errv>>

\* lines 771-780: run mode, resets, scan() is called
IsRunMode ==
    /\ run_pc = "is_runmode"
    /\ calls' = calls \o RunModeThenReset(cur)
    /\ mode' = [mode EXCEPT ![cur] = "run"]
    /\ stop_run' = "clear"
    /\ run_pc' = "is_scan"
    /\ UNCHANGED <<cfgw, rvars, evars, loopv, cur, regs, stack, configured, thrv, errv>>

\* line 780: scan() returns or raises
IsScan ==
    /\ run_pc = "is_scan"
    /\ calls' = Append(calls, <<"scan", cur>>)
    /\ \E s \in {stop_run, "set"} : stop_run' = s
    /\ \E v \in RegVals : regs' = [regs EXCEPT ![cur] = v]
    /\ \E k \in FaultKinds \cup {"none"} :
          /\ run_exc' = k
          /\ run_pc' = IF k = "none" THEN "is_conf" ELSE "is_exit"
    /\ UNCHANGED <<cfgw, rvars, evars, loopv, cur, mode, stack, configured, thrv,
                   err_queue, abort_run>>

\* line 782
IsConf ==
    /\ run_pc = "is_conf"
    /\ calls' = Append(calls, <<"set_conf_mode", cur>>)
    /\ mode' = [mode EXCEPT ![cur] = "conf"]
    /\ run_pc' = "is_exit"
    /\ UNCHANGED <<cfgv, rvars, evars, loopv, cur, regs, stack, configured, thrv, errv>>

\* the end of `with self.register.restored(...)` of line 768, left normally or
\* by the exception of scan(), which then leaves do_run
IsExit ==
    /\ run_pc = "is_exit"
    /\ regs' = Unwind(regs, stack)
    /\ stack' = <<>>
    /\ calls' = Append(calls, <<"restore", cur>>)
    /\ run_pc' = IF run_exc = "none" THEN "is_outer" ELSE "raised"
    /\ UNCHANGED <<cfgv, rvars, evars, loopv, cur, mode, configured, thrv, errv>>

MaxReports == 3      \* handle_err calls made before post_run is called

\* the exception classes handle_err and post_run tell apart, and one other
ErrKinds == {"RxSyncError", "EightbTenbError", "FifoError", "NoDataTimeout",
             "StopTimeout", "AnalysisError", "ValueError"}

\* a list of well-known kinds that leaves out AnalysisError
WellKnownFew == {"RxSyncError", "EightbTenbError", "FifoError", "NoDataTimeout",
                 "StopTimeout"}

\* post_run, line 802: the well-known kinds
WellKnown == {"RxSyncError", "EightbTenbError", "FifoError", "NoDataTimeout",
              "StopTimeout", "AnalysisError"}

\* a queue that hands out its newest entry
QueueLast(q) == q[Len(q)]

\* Queue.get(): the oldest entry
QueueGet(q) == Head(q)

\* the variables of do_run that handle_err and post_run leave alone
runv == <<broadcast_commands, tx_groups, run_pc, outer, unit, inner, cur, regs, reg0,
          mode, stack, configured, run_threads, thr, thr_exc, join_i, run_exc, calls,
          stop_run, xvars>>

InitErr ==
    /\ ReadoutIdle
    /\ XIdle
    /\ threaded_scan = TRUE
    /\ abort_run = FALSE
    /\ broadcast_commands = FALSE
    /\ reset_rx_on_error \in BOOLEAN
    /\ tx_groups \in Layouts
    /\ run_pc = "idle"
    /\ outer = <<>>
    /\ unit = <<>>
    /\ inner = <<>>
    /\ cur = "None"
    /\ reg0 = "a"
    /\ regs = [h \in Handles |-> "a"]
    /\ mode = [h \in Handles |-> "conf"]
    /\ stack = <<>>
    /\ configured = {}
    /\ run_threads = <<>>
    /\ thr = [h \in Handles |-> "none"]
    /\ thr_exc = [h \in Handles |-> "none"]
    /\ join_i = 0
    /\ run_exc = "none"
    /\ err_queue = <<>>
    /\ calls = <<>>
    /\ stop_run = "clear"
    /\ he_pc = [t \in Callers |-> "idle"]
    /\ he_fault = [t \in Callers |-> NoFault]
    /\ he_n = [t \in Callers |-> 0]
    /\ he_done = {}
    /\ rx_resets = {}
    /\ abort_calls = <<>>
    /\ reported = <<>>
    /\ post_pc = "wait"
    /\ post_left = <<>>
    /\ taken = NoFault
    /\ outcome = "none"

\* the handle_err calls entered so far
ReportsMade == Cardinality(he_done) + Cardinality({t \in Callers : he_pc[t] # "idle"})

\* caller t enters handle_err with a fault of class k
Enter(t, k) ==
    /\ he_n' = [he_n EXCEPT ![t] = @ + 1]
    /\ he_fault' = [he_fault EXCEPT ![t] = <<t, he_n[t] + 1, k>>]
    /\ he_pc' = [he_pc EXCEPT ![t] = "test"]

\* a scan thread, the readout's errback or the join loop (line 668) calls
\* handle_err while do_run runs, with a fault of one of the classes scan() raises
Report(t) ==
    /\ post_pc = "wait"
    /\ he_pc[t] = "idle"
    /\ ReportsMade < MaxReports
    /\ \E k \in FaultKinds : Enter(t, k)
    /\ UNCHANGED <<threaded_scan, abort_run, rvars, runv, reset_rx_on_error, err_queue,
                   he_done, rx_resets, abort_calls, reported,
                   post_pc, post_left, taken, outcome>>

\* line 857
HeTest(t) ==
    /\ he_pc[t] = "test"
    /\ he_pc' = [he_pc EXCEPT ![t] =
                    IF Recovered(he_fault[t][3]) THEN "reset" ELSE "abort_test"]
    /\ UNCHANGED <<threaded_scan, abort_run, rvars, runv, reset_rx_on_error, err_queue,
                   he_fault, he_n, he_done, rx_resets, abort_calls, reported,
                   post_pc, post_left, taken, outcome>>

\* handle_err returns to its caller; the analysis loop of post_run goes on
Return(t) ==
    /\ he_pc' = [he_pc EXCEPT ![t] = "idle"]
    /\ he_done' = he_done \cup {he_fault[t]}
    /\ post_pc' = IF t = MainThread /\ post_pc = "handling" THEN "loop" ELSE post_pc

\* lines 858-859: the receiver is reset
HeReset(t) ==
    /\ he_pc[t] = "reset"
    /\ rx_resets' = rx_resets \cup {he_fault[t]}
    /\ Return(t)
    /\ UNCHANGED <<threaded_scan, abort_run, rvars, runv, reset_rx_on_error, err_queue,
                   he_fault, he_n, abort_calls, reported, post_left, taken, outcome>>

\* line 862
HeAbortTest(t) ==
    /\ he_pc[t] = "abort_test"
    /\ he_pc' = [he_pc EXCEPT ![t] = IF abort_run THEN "put" ELSE "abort"]
    /\ UNCHANGED <<threaded_scan, abort_run, rvars, runv, reset_rx_on_error, err_queue,
                   he_fault, he_n, he_done, rx_resets, abort_calls, reported,
                   post_pc, post_left, taken, outcome>>

\* line 863: self.abort(msg=...) sets the abort flag
HeAbort(t) ==
    /\ he_pc[t] = "abort"
    /\ abort_calls' = Append(abort_calls, he_fault[t])
    /\ abort_run' = TRUE
    /\ he_pc' = [he_pc EXCEPT ![t] = "put"]
    /\ UNCHANGED <<threaded_scan, rvars, runv, reset_rx_on_error, err_queue,
                   he_fault, he_n, he_done, rx_resets, reported,
                   post_pc, post_left, taken, outcome>>

\* line 864
HePut(t) ==
    /\ he_pc[t] = "put"
    /\ err_queue' = Append(err_queue, he_fault[t])
    /\ reported' = Append(reported, he_fault[t])
    /\ Return(t)
    /\ UNCHANGED <<threaded_scan, abort_run, rvars, runv, reset_rx_on_error,
                   he_fault, he_n, rx_resets, abort_calls, post_left, taken, outcome>>

\* post_run is called: do_run has returned, no handle_err call is in progress
PostStart ==
    /\ post_pc = "wait"
    /\ \A t \in Callers : he_pc[t] = "idle"
    /\ post_pc' = "loop"
    /\ post_left' = ModuleIds
    /\ UNCHANGED <<threaded_scan, abort_run, rvars, runv, reset_rx_on_error, err_queue,
                   he_pc, he_fault, he_n, he_done, rx_resets, abort_calls, reported,
                   taken, outcome>>

\* lines 788-790: the next module unless the abort flag ends the loop
PostLoop ==
    /\ post_pc = "loop"
    /\ IF post_left = <<>> \/ abort_run
       THEN post_pc' = "queue" /\ UNCHANGED post_left
       ELSE post_pc' = "analyze" /\ post_left' = Tail(post_left)
    /\ UNCHANGED <<threaded_scan, abort_run, rvars, runv, reset_rx_on_error, err_queue,
                   he_pc, he_fault, he_n, he_done, rx_resets, abort_calls, reported,
                   taken, outcome>>

\* lines 791-797: analyze() returns and the configuration is saved, or it raises
\* and the exception is handed to handle_err
PostAnalyze ==
    /\ post_pc = "analyze"
    /\ \/ /\ post_pc' = "loop"
          /\ UNCHANGED <<he_pc, he_fault, he_n>>
       \/ /\ post_pc' = "handling"
          /\ \E k \in ErrKinds : Enter(MainThread, k)
    /\ UNCHANGED <<threaded_scan, abort_run, rvars, runv, reset_rx_on_error, err_queue,
                   he_done, rx_resets, abort_calls, reported, post_left, taken, outcome>>

\* lines 799-806: the oldest entry of a non-empty err_queue is taken and raised,
\* as RunAborted if its class is well known
PostQueue ==
    /\ post_pc = "queue"
    /\ IF err_queue = <<>>
       THEN /\ post_pc' = "returned"
            /\ UNCHANGED <<err_queue, taken, outcome>>
       ELSE LET e == QueueGet(err_queue) IN
            /\ taken' = e
            /\ err_queue' = SelectSeq(err_queue, LAMBDA x : x # e)
            /\ outcome' = IF e[3] \in WellKnown THEN "RunAborted" ELSE e[3]
            /\ post_pc' = "raised"
    /\ UNCHANGED <<threaded_scan, abort_run, rvars, runv, reset_rx_on_error,
                   he_pc, he_fault, he_n, he_done, rx_resets, abort_calls, reported,
                   post_left>>

HandleErrStep(t) ==
    \/ Report(t) \/ HeTest(t) \/ HeReset(t) \/ HeAbortTest(t) \/ HeAbort(t) \/ HePut(t)

NextErr ==
    \/ \E t \in Callers : HandleErrStep(t)
    \/ PostStart \/ PostLoop \/ PostAnalyze \/ PostQueue

SpecErr == InitErr /\ [][NextErr]_vars

\* the run manager calls post_run after do_run has returned
PostRun ==
    /\ run_pc = "returned"
    /\ post_pc = "idle"
    /\ post_pc' = "loop"
    /\ post_left' = ModuleIds
    /\ UNCHANGED <<threaded_scan, abort_run, rvars, runv, reset_rx_on_error, err_queue,
                   he_pc, he_fault, he_n, he_done, rx_resets, abort_calls, reported,
                   taken, outcome>>

NextRun ==
    \/ RunAbort
    \/ DoRunStart
    \/ BtCfgNext \/ BtConfigure \/ BtRunMode \/ BtCreate \/ BtConf
    \/ StartScanThread
    \/ \E h \in Handles : ThreadScan(h)
    \/ JoinWhile \/ JoinFor \/ Joined
    \/ BsOuter \/ BsInner \/ BsConfigure \/ BsRunMode \/ BsScan \/ BsExit \/ BsConf
    \/ ItOuter \/ ItInner \/ ItConfigure \/ ItRunMode \/ ItUnwind \/ ItConf
    \/ IsOuter \/ IsConfigure \/ IsRunMode \/ IsScan \/ IsConf \/ IsExit
    \/ PostRun \/ PostLoop \/ PostAnalyze \/ PostQueue
    \/ HeTest(MainThread) \/ HeReset(MainThread) \/ HeAbortTest(MainThread)
    \/ HeAbort(MainThread) \/ HePut(MainThread)

SpecRun == InitRun /\ [][NextRun]_vars


\* the scan threads are scheduled fairly, the controller starts every thread
FairReadout ==
    /\ SpecReadout
    /\ \A t \in Callers : WF_vars(ReadoutStep(t))
    /\ \A t \in Threads : WF_vars(StartThread(t))
    /\ WF_vars(ClearThreads)

\* =================================================================== claims

\* a caller inside start_readout or stop_readout (or the finally clause of readout)
InCall(t) == pc[t] \notin {"new", "ctrl", "scan", "reading", "dead", "done", "raised"}

\* C1 (readout coverage): while the abort flag is clear, the reader is running
\* whenever some handle has returned from start_readout and has not yet called
\* stop_readout; and it is idle when no handle is registered and no call is in
\* progress.
C1_ReadoutCoverage ==
    ~abort_run =>
        /\ (\E t \in Callers : pc[t] = "reading") => is_running
        /\ (running_readout_t = <<>> /\ \A t \in Callers : ~InCall(t)) => ~is_running

\* C2 (at most one active reader): in every interval during which
\* running_readout_t is non-empty the reader is started exactly once and not
\* stopped, and it has been stopped (once, at the interval's end) before the next
\* interval begins.
C2_OncePerInterval ==
    [][~abort_run' =>
         /\ (running_readout_t # <<>> /\ running_readout_t' = <<>>)
                => (iv_starts = 1 /\ iv_stops = 0)
         /\ (running_readout_t = <<>> /\ running_readout_t' # <<>>) => ~is_running
      ]_vars

C4_StopOnLastOut ==
    [][(~abort_run' /\ is_running /\ ~is_running') => running_readout_t = <<>>]_vars

\* C5 (no readout deadlock): if the abort flag is never set, every caller
\* eventually leaves start_readout and stop_readout, so every scan ends.
C5_NoReadoutDeadlock ==
    ([]~abort_run) => <>(\A t \in Scanners : pc[t] \in {"dead", "done", "raised"})

\* do_run has returned or has propagated an exception
RunEnded == run_pc \in {"returned", "raised"}

\* C6 (run mode is always left): when do_run has ended, every handle that was put
\* in run mode has been sent set_conf_mode.
C6_RunModeAlwaysLeft == RunEnded => \A h \in Handles : mode[h] = "conf"

\* C7 (restore): when do_run has ended, the registers of every handle equal their
\* content before configure() and scan() ran under it.
C7_RegistersRestored == RunEnded => \A h \in Handles : regs[h] = reg0

\* C8 (conf mode before restore): a restore point is never restored while its
\* handle is still in run mode.
C8_ConfModeBeforeRestore ==
    [][\A i \in DOMAIN stack :
          (Len(stack') < i) => mode[stack[i][1]] = "conf"]_vars

\* the modules a handle stands for in a broadcast strategy
MembersOf(h) == IF h \in ModuleNames THEN {} ELSE Members(GroupOf(h))

\* C9 (configure and snapshot before run mode): a handle is put in run mode only
\* with its restore point on the stack and its configure() done, and in the
\* broadcast strategies the same holds for every member module of the group.
C9_ConfiguredBeforeRunMode ==
    [][\A h \in Handles :
          (mode[h] = "conf" /\ mode'[h] = "run")
              => LET need == {h} \cup (IF broadcast_commands THEN MembersOf(h) ELSE {})
                 IN  /\ need \subseteq configured
                     /\ need \subseteq {stack[i][1] : i \in DOMAIN stack}]_vars

\* C10 (abort skips work not yet started): once the abort flag is set no
\* configure() begins, no handle is put in run mode, scan() is not called and no
\* scan thread is started.
C10_AbortSkipsNewPhases ==
    [][abort_run =>
         /\ Len(stack') <= Len(stack)
         /\ \A h \in Handles : mode'[h] = "run" => mode[h] = "run"
         /\ run_pc' \in {"bs_scan", "is_scan"} => run_pc' = run_pc
         /\ \A h \in Handles : thr'[h] = "alive" => thr[h] = "alive"]_vars

\* C11 (thread faults are forwarded): when the join loop has ended, no thread
\* that holds an exception of scan() is left in _scan_threads, i.e. every such
\* thread went through the except branch that removes it and calls handle_err.
C11_ThreadFaultsForwarded ==
    run_pc = "joined" =>
        \A i \in DOMAIN run_threads : thr_exc[run_threads[i]] = "none"

\* ================================================= handle_err and post_run
\* Faults are handed to handle_err by the scan threads and the readout's errback
\* (callers 1..NumThreads) and by the controller (the join loop of do_run, the
\* analysis loop of post_run); the calls interleave statement by statement.
\* post_run is called when do_run has returned.

\* post_run has returned or raised
PostEnded == post_pc \in {"returned", "raised"}

\* C12 (first fault wins): when post_run has ended and faults were enqueued, the
\* entry it took is the first one enqueued, the raised outcome is derived from
\* that entry alone, and all later entries are still in err_queue, in order.
C12_FirstFaultWins ==
    (PostEnded /\ reported # <<>>) =>
        /\ taken = reported[1]
        /\ outcome = IF reported[1][3] \in {"RxSyncError", "EightbTenbError", "FifoError",
                                            "NoDataTimeout", "StopTimeout", "AnalysisError"}
                     THEN "RunAborted" ELSE reported[1][3]
        /\ err_queue = Tail(reported)

\* C12 witness: three faults were enqueued, the first two by different callers
\* and with classes that lead to different outcomes; post_run has raised.
C12_Witness ==
    /\ post_pc = "raised"
    /\ Len(reported) >= 3
    /\ reported[1][1] # reported[2][1]
    /\ reported[1][3] = "ValueError"
    /\ reported[2][3] = "FifoError"
    /\ Len(err_queue) = 2

\* the fault is not recovered in place by handle_err
Fatal(f) == ~(reset_rx_on_error /\ f[3] \in {"RxSyncError", "EightbTenbError"})

\* C13 (abort is triggered once): self.abort is invoked at most once, exactly
\* once as soon as the handle_err call of a non-recoverable fault has returned,
\* and every such fault is in err_queue.
C13_AbortOnce ==
    /\ Len(abort_calls) <= 1
    /\ \A f \in he_done : Fatal(f) =>
          /\ Len(abort_calls) = 1
          /\ f \in Members(reported)

\* C14 (recovery policy): for every fault whose handle_err call has returned: if
\* reset_rx_on_error is on and the fault is an RxSyncError or EightbTenbError the
\* receiver was reset, abort was not invoked for it and it was not enqueued;
\* otherwise the receiver was not reset for it, the abort flag is set and the
\* fault is in err_queue (or is the entry post_run took from it).
C14_RecoveryPolicy ==
    \A f \in he_done :
        IF reset_rx_on_error /\ f[3] \in {"RxSyncError", "EightbTenbError"}
        THEN /\ f \in rx_resets
             /\ f \notin Members(abort_calls)
             /\ f \notin Members(reported)
        ELSE /\ f \notin rx_resets
             /\ abort_run
             /\ (f \in Members(err_queue) \/ f = taken)

\* C14 witness: with reset_rx_on_error on, handle_err has returned for an
\* RxSyncError (recovered) and for a FifoError (not recovered).
C14_Witness ==
    /\ reset_rx_on_error
    /\ \E f \in he_done : f[3] = "RxSyncError" /\ f \in rx_resets
    /\ \E g \in he_done : g[3] = "FifoError" /\ g \in Members(err_queue)

\* C15 (teardown reporting): post_run returns normally only with an empty
\* err_queue and nothing enqueued; when it raises, it raises RunAborted for a
\* head of a well-known class and the head's own exception otherwise.
C15_TeardownReporting ==
    /\ post_pc = "returned" => (reported = <<>> /\ err_queue = <<>> /\ outcome = "none")
    /\ post_pc = "raised" =>
          /\ taken # NoFault
          /\ taken[3] \in {"RxSyncError", "EightbTenbError", "FifoError",
                           "NoDataTimeout", "StopTimeout", "AnalysisError"}
                => outcome = "RunAborted"
          /\ taken[3] = "ValueError" => outcome = "ValueError"
    /\ (post_pc = "queue" /\ err_queue # <<>>) => reported # <<>>

\* C15 witness: analyze() raised AnalysisError, post_run has raised RunAborted.
C15_Witness ==
    /\ post_pc = "raised"
    /\ outcome = "RunAborted"
    /\ taken[3] = "AnalysisError"
    /\ taken[1] = MainThread

\* C16 (abort stops the reader at once): a caller leaves the finally clause of
\* readout() under abort only with the reader idle, a stop made there has timeout
\* 0, and a stop made by stop_readout has the timeout the caller passed (10.0
\* unless the scan passes another value).
C16_AbortStopsAtOnce ==
    [][\A t \in Callers :
          /\ (pc[t] = "ro_crit" /\ pc'[t] # "ro_crit") => ~is_running'
          /\ (pc[t] = "ro_crit" /\ pc'[t] # "ro_crit" /\ is_running) => stop_timeout' = <<0>>
          /\ (pc[t] = "ro_finally" /\ abort_run) => pc'[t] \in {"ro_finally", "ro_lock"}
          /\ (pc[t] = "st_crit" /\ pc'[t] # "st_crit" /\ is_running)
                => (~is_running' /\ stop_timeout' = <<ro_timeout>> /\ ro_timeout \in {3, 10})
      ]_vars

\* C16 witness: a readout context was left under abort, the reader was still
\* running and has been stopped with timeout 0.
C16_Witness ==
    /\ abort_run /\ ~is_running /\ stop_timeout = <<0>>
    /\ \E t \in Scanners : pc[t] \in {"scan", "raised", "dead", "done"} /\ cycles[t] > 0

\* C17 (InvalidHandle): stop_readout called by a handle that is not in
\* running_readout_t raises, and leaves running_readout_t and the reader's
\* running state as they were.
C17_InvalidHandle ==
    [][\A t \in Callers :
          (pc[t] = "st_remove" /\ pc'[t] # "st_remove"
             /\ Handle(t) \notin Members(running_readout_t))
              => /\ running_readout_t' = running_readout_t
                 /\ is_running' = is_running
                 /\ \/ pc'[t] = "raised"
                    \/ pc'[t] = "ro_finally" /\ t \in exc'
      ]_vars

\* C17 witness: a scan thread that was not registered called stop_readout and
\* ended with the exception while the reader, used by another thread, runs on.
C17_Witness ==
    /\ threaded_scan /\ is_running /\ running_readout_t # <<>>
    /\ \E t \in Threads : pc[t] = "raised" /\ Handle(t) \notin Members(running_readout_t)

RECURSIVE Count(_, _)
\* list.count(x)
Count(s, x) ==
    IF s = <<>> THEN 0
    ELSE (IF Head(s) = x THEN 1 ELSE 0) + Count(Tail(s), x)

\* C18 as the spec states it (AlreadyActive is not an error): a start_readout by
\* a handle that is already registered does not raise and leaves the handle
\* registered once.
C18_AlreadyActiveCoalesced ==
    [][\A t \in Callers :
          (pc[t] = "sr_append" /\ pc'[t] # "sr_append"
             /\ Handle(t) \in Members(running_readout_t))
              => /\ pc'[t] # "raised"
                 /\ Count(running_readout_t', Handle(t)) = 1
      ]_vars

\* C18 as amended: with scan threads, a start_readout by a handle that is
\* already registered raises and leaves running_readout_t unchanged; without scan
\* threads it does not raise and appends the handle once more, and a stop_readout
\* removes one occurrence only.
C18_AlreadyActiveRaisesOrRepeats ==
    [][\A t \in Callers :
          /\ (pc[t] = "sr_append" /\ pc'[t] # "sr_append"
                /\ Handle(t) \in Members(running_readout_t))
               => IF scan_threads # {}
                  THEN pc'[t] = "raised" /\ running_readout_t' = running_readout_t
                  ELSE /\ pc'[t] # "raised"
                       /\ running_readout_t' = Append(running_readout_t, Handle(t))
          /\ (pc[t] = "st_remove" /\ pc'[t] = "st_clear")
               => Count(running_readout_t', Handle(t))
                    = Count(running_readout_t, Handle(t)) - 1
      ]_vars

\* C18 witness: without scan threads the handle was registered twice and one
\* stop_readout has been made: the handle is still registered.
C18_Witness ==
    /\ ~threaded_scan
    /\ pc[MainThread] \in {"st_clear", "st_wait", "st_cond"}
    /\ running_readout_t = <<Handle(MainThread)>>

\* the positions of the call <<op, h>> in the call log
Idx(op, h) == {i \in DOMAIN calls : calls[i] = <<op, h>>}

\* _set_default_cfg, lines 237-239: the group entry has chip_address None
\* (broadcast); a module has its own address
ChipAddress(h) == IF h \in ModuleNames THEN h ELSE "None"

\* C19 (broadcast + sequential): for a group with at least two members, with
\* the abort flag clear: scan() is never called under a member's handle, at most
\* once under the group handle (chip_address None) and exactly once when do_run
\* has returned; when it is called, configure() has been called once for every
\* member and set_run_mode once for the group.
C19_BroadcastSequential ==
    (broadcast_commands /\ ~threaded_scan /\ ~abort_run) =>
        \A k \in DOMAIN tx_groups :
            LET g == GroupNames[k]
                ms == {tx_groups[k][i] : i \in DOMAIN tx_groups[k]}
            IN  Len(tx_groups[k]) >= 2 =>
                  /\ \A m \in ms : Idx("scan", m) = {}
                  /\ Cardinality(Idx("scan", g)) <= 1
                  /\ run_pc = "returned" => Cardinality(Idx("scan", g)) = 1
                  /\ \A i \in Idx("scan", g) :
                        /\ ChipAddress(calls[i][2]) = "None"
                        /\ \A m \in ms :
                              /\ Cardinality(Idx("configure", m)) = 1
                              /\ \A j \in Idx("configure", m) : j < i
                        /\ Cardinality(Idx("set_run_mode", g)) = 1
                        /\ \A j \in Idx("set_run_mode", g) :
                              /\ j < i
                              /\ \A m \in ms : \A c \in Idx("configure", m) : c < j

\* C19 witness: do_run has returned without abort from a broadcast + sequential
\* run over a group of two modules whose scan() was called.
C19_Witness ==
    /\ broadcast_commands /\ ~threaded_scan /\ ~abort_run
    /\ run_pc = "returned"
    /\ Len(tx_groups[1]) = 2
    /\ Idx("scan", "g1") # {}

\* C20 (broadcast + threaded): threads are created for groups only and at most
\* one per group, one for every group when the abort flag is clear at the start
\* loop; when a thread is started, configure() has been called for every group
\* and every module, every group has been put in run mode, and receiver and
\* FIFO have been reset after that.
C20_BroadcastThreaded ==
    (broadcast_commands /\ threaded_scan) =>
        LET gs == {GroupNames[k] : k \in DOMAIN tx_groups}
            ms == UNION {{tx_groups[k][i] : i \in DOMAIN tx_groups[k]} : k \in DOMAIN tx_groups}
        IN  /\ \A h \in Handles :
                  /\ Cardinality(Idx("create", h)) <= 1
                  /\ Cardinality(Idx("start", h)) <= 1
                  /\ Idx("create", h) # {} => h \in gs
            /\ (run_pc = "start_threads" /\ ~abort_run) =>
                  \A g \in gs : Cardinality(Idx("create", g)) = 1
            /\ \A i \in DOMAIN calls :
                  calls[i][1] = "start" =>
                      /\ \A h \in gs \cup ms : \E j \in Idx("configure", h) : j < i
                      /\ \E r \in Idx("reset", "None") :
                            /\ r < i
                            /\ \A g \in gs : \E j \in Idx("set_run_mode", g) : j < r

\* C20 witness: two groups, the threads of both have been started.
C20_Witness ==
    /\ broadcast_commands /\ threaded_scan
    /\ Len(tx_groups) = 2
    /\ Idx("start", "g1") # {}
    /\ Idx("start", "g2") # {}

\* C20 as stated: when the start loop of line 658 is reached, exactly one
\* thread has been created for every group (abort or not), and a thread is
\* started only after every configure(), every set_run_mode and the reset.
C20_OneThreadPerGroup ==
    (broadcast_commands /\ threaded_scan) =>
        LET gs == {GroupNames[k] : k \in DOMAIN tx_groups}
            ms == UNION {{tx_groups[k][i] : i \in DOMAIN tx_groups[k]} : k \in DOMAIN tx_groups}
        IN  /\ run_pc = "start_threads" =>
                  \A g \in gs : Cardinality(Idx("create", g)) = 1
            /\ \A i \in DOMAIN calls :
                  calls[i][1] = "start" =>
                      /\ \A h \in gs \cup ms : \E j \in Idx("configure", h) : j < i
                      /\ \E r \in Idx("reset", "None") : r < i
                      /\ \A g \in gs : \E j \in Idx("set_run_mode", g) : j < i

\* the phases of one module in the individual + sequential strategy, lines
\* 768-782, in the order of the statements
PhaseSeq(m) ==
    << <<"snapshot", m>>, <<"configure", m>>, <<"set_run_mode", m>>, <<"scan", m>>,
       <<"set_conf_mode", m>>, <<"restore", m>> >>

RECURSIVE PhasesOf(_)
\* the phases of the modules of ms, one module after the other
PhasesOf(ms) == IF ms = <<>> THEN <<>> ELSE PhaseSeq(Head(ms)) \o PhasesOf(Tail(ms))

\* the phase calls made so far (the resets of receiver and FIFO left out)
Phases == SelectSeq(calls, LAMBDA c : c[1] # "reset")

\* C21 (individual + sequential): with neither flag set and no fault, the phase
\* calls made are at every moment a prefix of: snapshot, configure,
\* set_run_mode, scan, set_conf_mode, restore of the first module of the
\* registry, then the same of the second, and so on; when do_run has returned
\* only whole modules have been processed, all of them when the abort flag is
\* clear; post_run runs only after do_run has returned and, the abort flag
\* clear, has called analyze() for every module, in registry order.
C21_IndividualSequential ==
    (~broadcast_commands /\ ~threaded_scan /\ run_exc = "none" /\ reported = <<>>) =>
        LET all == Flatten(tx_groups)
            full == PhasesOf(all)
        IN  /\ Len(Phases) <= Len(full)
            /\ Phases = SubSeq(full, 1, Len(Phases))
            /\ run_pc = "returned" =>
                  /\ Len(Phases) % 6 = 0
                  /\ ~abort_run => Phases = full
            /\ post_pc # "idle" =>
                  /\ run_pc = "returned"
                  /\ Len(post_left) <= Len(all)
                  /\ post_left = SubSeq(all, Len(all) - Len(post_left) + 1, Len(all))
            /\ (post_pc \in {"queue", "returned", "raised"} /\ ~abort_run) => post_left = <<>>

\* C21 witness: a registry of three modules, no fault and no abort: do_run has
\* returned and post_run has analyzed every module.
C21_Witness ==
    /\ ~broadcast_commands /\ ~threaded_scan /\ ~abort_run
    /\ run_exc = "none" /\ reported = <<>>
    /\ Len(Flatten(tx_groups)) = 3
    /\ post_pc = "returned"
    /\ Len(Phases) = 18

\* C22 (individual + threaded rounds): with the abort flag clear, do_run does
\* not raise, no module is configured or scanned twice, and when do_run has
\* returned every module of every group has been configured and scanned once,
\* whatever the sizes of the groups.
C22_RoundsCoverEveryModule ==
    (~broadcast_commands /\ threaded_scan /\ ~abort_run) =>
        /\ run_pc # "raised"
        /\ \A k \in DOMAIN tx_groups : \A i \in DOMAIN tx_groups[k] :
              LET m == tx_groups[k][i] IN
              /\ Cardinality(Idx("configure", m)) <= 1
              /\ Cardinality(Idx("scan", m)) <= 1
              /\ run_pc = "returned" =>
                    /\ Cardinality(Idx("configure", m)) = 1
                    /\ Cardinality(Idx("scan", m)) = 1

\* ============================================================ construction
\* __init__, lines 81-97: _parse_module_cfgs(conf), then _set_default_cfg(conf)

TxNames == {"tx0", "tx1"}
FifoNames == {"f0", "f1"}
\* chip addresses; "None" is the broadcast address None
ChipAddresses == {"None", "a1", "a2"}
Flavors == {"fei4a", "fei4b"}

\* conf['modules']: per module its TX, FIFO, chip_address and fe_flavor
ModuleCfgs ==
    UNION {[ms -> [TX : TxNames, FIFO : FifoNames,
                   chip_address : ChipAddresses, fe_flavor : Flavors]] :
           ms \in SUBSET ModuleNames}

\* groupby_dict(d, key): the keys of d grouped by the value d[k][key]
GroupByDict(d, key) ==
    [v \in {d[m][key] : m \in DOMAIN d} |-> {m \in DOMAIN d : d[m][key] = v}]

\* a key that does not depend on the command line
TxKeyConst(tx) == <<"module_group_TX=", "">>

\* "module_group_TX=" + tx and "module_group_FIFO=" + fifo
TxKey(tx) == <<"module_group_TX=", tx>>
FifoKey(fifo) == <<"module_group_FIFO=", fifo>>

\* d with the entry k -> v added or replaced (d[k] = v)
SetItem(d, k, v) == [x \in DOMAIN d \cup {k} |-> IF x = k THEN v ELSE d[x]]

\* line 228: the set of the fe_flavor values of the group's modules
FeFlavors(g) == {module_cfgs[m].fe_flavor : m \in g}
\* line 232: the set of the chip_address values of the group's modules
ChipAddressSet(g) == {module_cfgs[m].chip_address : m \in g}

\* the test of line 233 without its second operand
AddressesRejectedDup(g) == Cardinality(g) # Cardinality(ChipAddressSet(g))

\* line 233
AddressesRejected(g) ==
    \/ Cardinality(g) # Cardinality(ChipAddressSet(g))
    \/ (Cardinality(g) # 1 /\ "None" \in ChipAddressSet(g))

\* a test that accepts two FIFOs
TooManyFifosTwo(fg) == Cardinality(DOMAIN fg) > 2

\* line 253
TooManyFifos(fg) == Cardinality(DOMAIN fg) > 1

\* the variables the constructor leaves alone
notctor == <<threaded_scan, abort_run, rvars, runvars, evars, hvars, pvars, fvars, tvars,
            kvars, nvars>>

\* the constructor is called with a conf
InitCtor ==
    /\ ReadoutIdle
    /\ DataIdle
    /\ ProxyIdle
    /\ FilesIdle
    /\ DefsIdle
    /\ CmdIdle
    /\ HandleIdle
    /\ RunIdle
    /\ ErrIdle
    /\ threaded_scan = FALSE
    /\ abort_run = FALSE
    /\ module_cfgs \in ModuleCfgs
    /\ ctor_pc = "parse"
    /\ tx_left = {}
    /\ tx_module_groups = <<>>
    /\ fifo_module_groups = <<>>
    /\ ctor_err = <<>>

\* _parse_module_cfgs, lines 171 and 199-201: no module configuration is an error
CtorParse ==
    /\ ctor_pc = "parse"
    /\ IF DOMAIN module_cfgs = {}
       THEN ctor_pc' = "raised" /\ ctor_err' = <<"ValueError: no module", "None">>
       ELSE ctor_pc' = "group_tx" /\ UNCHANGED ctor_err
    /\ UNCHANGED <<notctor,
                   module_cfgs, tx_left, tx_module_groups, fifo_module_groups>>

\* line 226: the modules grouped by their TX
CtorGroupTx ==
    /\ ctor_pc = "group_tx"
    /\ tx_left' = DOMAIN GroupByDict(module_cfgs, "TX")
    /\ ctor_pc' = "tx_loop"
    /\ UNCHANGED <<notctor,
                   module_cfgs, tx_module_groups, fifo_module_groups, ctor_err>>

\* lines 227-250, one iteration: the dict is iterated in an order of its own;
\* the flavor test, the address test, then the group is entered
CtorTxLoop ==
    /\ ctor_pc = "tx_loop"
    /\ IF tx_left = {}
       THEN /\ ctor_pc' = "group_fifo"
            /\ UNCHANGED <<tx_left, tx_module_groups, ctor_err>>
       ELSE \E tx \in tx_left :
            LET g == GroupByDict(module_cfgs, "TX")[tx] IN
            /\ tx_left' = tx_left \ {tx}
            /\ IF Cardinality(FeFlavors(g)) # 1
               THEN /\ ctor_pc' = "raised"
                    /\ ctor_err' = <<"ValueError: fe_flavor", tx>>
                    /\ UNCHANGED tx_module_groups
               ELSE IF AddressesRejected(g)
               THEN /\ ctor_pc' = "raised"
                    /\ ctor_err' = <<"ValueError: chip_address", tx>>
                    /\ UNCHANGED tx_module_groups
               ELSE /\ tx_module_groups' = SetItem(tx_module_groups, TxKey(tx), g)
                    /\ UNCHANGED <<ctor_pc, ctor_err>>
    /\ UNCHANGED <<notctor,
                   module_cfgs, fifo_module_groups>>

\* lines 252-270: the modules grouped by their FIFO; more than one group is
\* not implemented
CtorGroupFifo ==
    /\ ctor_pc = "group_fifo"
    /\ LET fg == GroupByDict(module_cfgs, "FIFO") IN
       IF TooManyFifos(fg)
       THEN /\ ctor_pc' = "raised"
            /\ ctor_err' = <<"NotImplementedError", "None">>
            /\ UNCHANGED fifo_module_groups
       ELSE /\ fifo_module_groups' = [k \in {FifoKey(f) : f \in DOMAIN fg} |-> fg[k[2]]]
            /\ ctor_pc' = "done"
            /\ UNCHANGED ctor_err
    /\ UNCHANGED <<notctor,
                   module_cfgs, tx_left, tx_module_groups>>

NextCtor == CtorParse \/ CtorGroupTx \/ CtorTxLoop \/ CtorGroupFifo

SpecCtor == InitCtor /\ [][NextCtor]_vars

\* C23 (group derivation is a partition): after a successful construction
\* every module is a member of exactly one entry of _tx_module_groups, the one
\* of its TX, and of exactly one entry of _fifo_module_groups, and no entry
\* has a member that is not a module.
C23_GroupsPartition ==
    ctor_pc = "done" =>
        /\ \A m \in DOMAIN module_cfgs :
              /\ {k \in DOMAIN tx_module_groups : m \in tx_module_groups[k]}
                    = {<<"module_group_TX=", module_cfgs[m].TX>>}
              /\ Cardinality({k \in DOMAIN fifo_module_groups :
                                 m \in fifo_module_groups[k]}) = 1
        /\ \A k \in DOMAIN tx_module_groups : tx_module_groups[k] \subseteq DOMAIN module_cfgs
        /\ \A k \in DOMAIN fifo_module_groups :
              fifo_module_groups[k] \subseteq DOMAIN module_cfgs

\* C23 witness: three modules on two command lines, constructed.
C23_Witness ==
    /\ ctor_pc = "done"
    /\ Cardinality(DOMAIN module_cfgs) = 3
    /\ Cardinality(DOMAIN tx_module_groups) = 2

\* C24 as stated (DuplicateAddress iff): a command-line group is rejected with
\* the chip-address error only if two of its members with an address other
\* than None share that address, and a group that is entered has no such two
\* members; so a group of several members with distinct addresses, one of
\* them None, is entered.
C24_DuplicateAddressIff ==
    LET groups == GroupByDict(module_cfgs, "TX")
        SharedAddress(g) ==
            \E m, n \in g : /\ m # n
                            /\ module_cfgs[m].chip_address # "None"
                            /\ module_cfgs[m].chip_address = module_cfgs[n].chip_address
    IN  \A tx \in DOMAIN groups :
            /\ ctor_err = <<"ValueError: chip_address", tx>> => SharedAddress(groups[tx])
            /\ <<"module_group_TX=", tx>> \in DOMAIN tx_module_groups =>
                  ~SharedAddress(groups[tx])
            /\ (ctor_pc = "raised" /\ ctor_err[2] = tx /\ SharedAddress(groups[tx])) =>
                  ctor_err[1] \in {"ValueError: chip_address", "ValueError: fe_flavor"}

\* C24, amended: a group is rejected with the chip-address error only if two of
\* its members share a chip_address or it has several members and one of
\* them has the address None; a group that is entered has neither; a group of
\* one flavor that has either and is visited is rejected with that error.
C24_AddressesDistinctNoBroadcast ==
    LET groups == GroupByDict(module_cfgs, "TX")
        Clash(g) ==
            \E m, n \in g : /\ m # n
                            /\ \/ module_cfgs[m].chip_address = module_cfgs[n].chip_address
                               \/ module_cfgs[m].chip_address = "None"
    IN  \A tx \in DOMAIN groups :
            /\ ctor_err = <<"ValueError: chip_address", tx>> => Clash(groups[tx])
            /\ <<"module_group_TX=", tx>> \in DOMAIN tx_module_groups => ~Clash(groups[tx])
            /\ (ctor_pc = "raised" /\ ctor_err[2] = tx /\ Clash(groups[tx])) =>
                  ctor_err[1] \in {"ValueError: chip_address", "ValueError: fe_flavor"}
            /\ (ctor_pc = "raised" /\ ctor_err[2] = tx /\ Clash(groups[tx])
                  /\ \A m, n \in groups[tx] : module_cfgs[m].fe_flavor = module_cfgs[n].fe_flavor) =>
                  ctor_err[1] = "ValueError: chip_address"

\* C24 witness: a group of two modules of one flavor with the addresses None
\* and a1 has been rejected with the chip-address error.
C24_Witness ==
    /\ ctor_pc = "raised"
    /\ ctor_err[1] = "ValueError: chip_address"
    /\ \E m, n \in DOMAIN module_cfgs :
          /\ module_cfgs[m].TX = ctor_err[2] /\ module_cfgs[n].TX = ctor_err[2]
          /\ module_cfgs[m].chip_address = "None"
          /\ module_cfgs[n].chip_address = "a1"
          /\ \A k \in DOMAIN module_cfgs : module_cfgs[k].TX = ctor_err[2] => k \in {m, n}

MaxWords == 2        \* readout words of one data batch at most
MaxItems == 2        \* handle_data calls made at most

Channels == {0, 1}
\* a readout word: its class and the channel it comes from
Words ==
    {[kind |-> "trigger", ch |-> 0], [kind |-> "other", ch |-> 0]}
        \cup [kind : {"fe", "tdc"}, ch : Channels]
Batches == UNION {[1..n -> Words] : n \in 0..MaxWords}

MaxSets == 2         \* set_scan_parameters calls made at most

\* the keys of self._scan_parameters (init_modules, lines 437-444): the
\* modules, the group of their command line, and None
ParamModules == {"m1", "m2"}
ParamHandles == ParamModules \cup {"g1", "None"}

\* the scan parameters of the run configuration and the values they are given
ParamNames == {"a", "b"}
ParamValues == {0, 1}

\* selected_modules, lines 916-921
SelectedModules(h) == IF h \in ParamModules THEN {h} ELSE ParamModules

\* per selected module: rx_channel, and tdc_channel as <<>> (None) or <<channel>>
RawCfgs ==
    UNION {[ms -> [rx_channel : Channels, tdc_channel : {<<>>} \cup {<<c>> : c \in Channels}]] :
           ms \in {{"m1"}, {"m1", "m2"}}}

\* readout_utils: is_trigger_word, is_fe_word, is_tdc_word, is_data_from_channel,
\* is_tdc_from_channel
IsTriggerWord(w) == w.kind = "trigger"
IsFeWord(w) == w.kind = "fe"
IsTdcWord(w) == w.kind = "tdc"
IsDataFromChannel(c, w) == w.ch = c
IsTdcFromChannel(c, w) == w.ch = c

\* init, lines 1208-1213: self._fei4_raw_data_filter[module_id]; rx_channel is
\* never missing or None for a module (_parse_module_cfgs, lines 188-189)
Fei4RawDataFilter(m, w) == IsFeWord(w) /\ IsDataFromChannel(raw_cfgs[m].rx_channel, w)

\* init, lines 1214-1222: tdc_filter
TdcFilter(m, w) ==
    IF raw_cfgs[m].tdc_channel = <<>>
    THEN IsTdcWord(w)
    ELSE IsTdcWord(w) /\ IsTdcFromChannel(raw_cfgs[m].tdc_channel[1], w)

\* init, line 1223: self._filter[module_id]
Filter(m, w) == IsTriggerWord(w) \/ (Fei4RawDataFilter(m, w) \/ TdcFilter(m, w))

\* convert_data_iterable with filter_func: the words the filter accepts, in order
ConvertData(m, data) == SelectSeq(data, LAMBDA w : Filter(m, w))

\* the files of the selected modules are open (open_files) for a scan
InitData ==
    /\ ReadoutIdle
    /\ RunIdle
    /\ ErrIdle
    /\ CtorIdle
    /\ ProxyIdle
    /\ FilesIdle
    /\ DefsIdle
    /\ CmdIdle
    /\ HandleIdle
    /\ threaded_scan = FALSE
    /\ abort_run = FALSE
    /\ raw_cfgs \in RawCfgs
    /\ scan_params = [h \in ParamHandles |-> [k \in ParamNames |-> 0]]
    /\ sp_calls = 0
    /\ last_set = <<>>
    /\ raw_data_files = [m \in DOMAIN raw_cfgs |-> <<0, <<>>, 0>>]
    /\ data_calls = 0
    /\ last_batch = <<>>

\* the variables handle_data leaves alone
notdata == <<threaded_scan, abort_run, rvars, runvars, evars, cvars, pvars, fvars, tvars,
            kvars, nvars>>

\* line 927: self.scan_parameters._replace(**fields) - the parameters of the
\* current handle (the property of lines 160-162) with the given one replaced
Replaced(h, m, k, v) == [scan_params[h] EXCEPT ![k] = v]

\* set_scan_parameters(k=v), lines 905-927, under a module handle, the group
\* handle or the handle None: every selected module gets the replaced tuple
SetScanParameters ==
    /\ sp_calls < MaxSets
    /\ \E h \in ParamHandles, k \in ParamNames, v \in ParamValues :
          /\ scan_params' = [m \in ParamHandles |->
                                IF m \in SelectedModules(h) THEN Replaced(h, m, k, v)
                                ELSE scan_params[m]]
          /\ last_set' = <<h, k, v>>
    /\ sp_calls' = sp_calls + 1
    /\ UNCHANGED <<notdata, raw_cfgs, raw_data_files, data_calls, last_batch>>

\* handle_data, lines 845-846, and append_item, lines 1228-1230: every selected
\* module's file gets the filtered data and the module's scan parameters
HandleData ==
    /\ data_calls < MaxItems
    /\ \E data \in Batches :
          /\ last_batch' = <<data>>
          /\ raw_data_files' =
                [m \in DOMAIN raw_data_files |->
                    IF m \in DOMAIN raw_cfgs
                    THEN <<raw_data_files[m][1] + 1, ConvertData(m, data), scan_params[m]>>
                    ELSE raw_data_files[m]]
    /\ data_calls' = data_calls + 1
    /\ UNCHANGED <<notdata, raw_cfgs, scan_params, sp_calls, last_set>>

NextData == SetScanParameters \/ HandleData

SpecData == InitData /\ [][NextData]_vars

\* C26 (raw data routing): a handle_data call gives every selected module's
\* sink exactly one append_item call, with the module's own scan parameters and
\* with exactly the words that are trigger words, front-end words of the
\* module's rx_channel, or TDC words of the module's tdc_channel (none if the
\* module has no TDC channel).
C26_RawDataRouting ==
    [][data_calls' = data_calls + 1 =>
          \A m \in DOMAIN raw_cfgs :
              LET Own(w) ==
                      \/ w.kind = "trigger"
                      \/ (w.kind = "fe" /\ w.ch = raw_cfgs[m].rx_channel)
                      \/ (w.kind = "tdc" /\ raw_cfgs[m].tdc_channel = <<w.ch>>)
              IN  /\ raw_data_files'[m][1] = raw_data_files[m][1] + 1
                  /\ raw_data_files'[m][3] = scan_params[m]
                  /\ raw_data_files'[m][2] = SelectSeq(last_batch'[1], Own)
      ]_vars

\* ========================================================== device handles
\* DutHandle.__getitem__ (lines 1298-1311) and RhlHandle (lines 1233-1286)

Endpoints == {"e1", "e2", "e3"}
RegValues == {0, 1, 2}

\* the values of self._module_cfg[name] that are lists of distinct endpoints
Bindings ==
    { <<"e1">>, <<"e2">>, <<"e1", "e2">>, <<"e2", "e1">>, <<"e1", "e2", "e3">> }

\* a test that takes any values for the same
ConsistentAlways(values) == TRUE

\* RhlHandle.__getitem__, line 1252: len(set(values)) == 1
Consistent(values) == Cardinality({values[i] : i \in DOMAIN values}) = 1

\* DutHandle.__getitem__, lines 1307-1311: a list of more than one name gives a
\* RhlHandle, a list of one name the endpoint itself
IsRhlHandle == Len(module_names) > 1

\* the variables the device handles leave alone
notproxy == <<threaded_scan, abort_run, rvars, runvars, evars, cvars, hvars, fvars, tvars,
            kvars, nvars>>

\* a role of a module configuration is bound to its endpoints
InitProxy ==
    /\ ReadoutIdle
    /\ RunIdle
    /\ ErrIdle
    /\ CtorIdle
    /\ DataIdle
    /\ FilesIdle
    /\ DefsIdle
    /\ CmdIdle
    /\ HandleIdle
    /\ threaded_scan = FALSE
    /\ abort_run = FALSE
    /\ module_names \in Bindings
    /\ endpoint \in [Endpoints -> RegValues]
    /\ read_result = [err |-> FALSE, val |-> 0]
    /\ last_op = "none"
    /\ last_value = 0

\* handle[name] = value: RhlHandle.__setitem__, lines 1256-1258, or the item
\* assignment of the single endpoint
ProxyWrite ==
    /\ \E v \in RegValues :
          /\ last_value' = v
          /\ endpoint' =
                IF IsRhlHandle
                THEN [e \in Endpoints |->
                         IF \E i \in DOMAIN module_names : module_names[i] = e
                         THEN v ELSE endpoint[e]]
                ELSE [endpoint EXCEPT ![module_names[1]] = v]
    /\ last_op' = "write"
    /\ UNCHANGED <<notproxy, module_names, read_result>>

\* handle[name]: RhlHandle.__getitem__, lines 1248-1254, or the item of the
\* single endpoint
ProxyRead ==
    /\ LET values == [i \in DOMAIN module_names |-> endpoint[module_names[i]]] IN
       read_result' =
          IF IsRhlHandle
          THEN IF ~Consistent(values)
               THEN [err |-> TRUE, val |-> 0]
               ELSE [err |-> FALSE, val |-> values[1]]
          ELSE [err |-> FALSE, val |-> endpoint[module_names[1]]]
    /\ last_op' = "read"
    /\ UNCHANGED <<notproxy, module_names, endpoint, last_value>>

\* the hardware changes the register of one endpoint
EndpointChange ==
    /\ \E e \in Endpoints : \E v \in RegValues :
          /\ endpoint[e] # v
          /\ endpoint' = [endpoint EXCEPT ![e] = v]
    /\ last_op' = "change"
    /\ UNCHANGED <<notproxy, module_names, read_result, last_value>>

NextProxy == ProxyWrite \/ ProxyRead \/ EndpointChange

SpecProxy == InitProxy /\ [][NextProxy]_vars

\* C27 (broadcast device proxy): after a write through the handle every bound
\* endpoint holds the written value; a read gives the common value when all
\* bound endpoints hold the same value and fails when two of them differ; with
\* one bound endpoint a read gives that endpoint's value and never fails.
C27_BroadcastProxy ==
    LET bound == {module_names[i] : i \in DOMAIN module_names} IN
    /\ last_op = "write" => \A e \in bound : endpoint[e] = last_value
    /\ last_op = "read" =>
          /\ read_result.err <=> (\E e, f \in bound : endpoint[e] # endpoint[f])
          /\ ~read_result.err => \A e \in bound : endpoint[e] = read_result.val
    /\ (last_op = "read" /\ Len(module_names) = 1) =>
          (~read_result.err /\ read_result.val = endpoint[module_names[1]])

\* C27 witness: a role bound to three endpoints, two of which hold the same
\* value and the third another one, has been read and the read has failed.
C27_Witness ==
    /\ Len(module_names) = 3
    /\ last_op = "read"
    /\ read_result.err
    /\ endpoint["e1"] = endpoint["e2"]
    /\ endpoint["e3"] # endpoint["e1"]

\* ============================================================ access_files
\* access_files (lines 993-1002), open_files (1004-1023), close_files (1025-1031)

\* the variables access_files leaves alone
notfiles == <<threaded_scan, abort_run, rvars, runvars, evars, cvars, hvars, pvars, tvars,
            kvars, nvars>>

\* access_files is entered under a handle: selected_modules of lines 1005-1012
\* is every module, one module or the members of a group
InitFiles ==
    /\ ReadoutIdle
    /\ RunIdle
    /\ ErrIdle
    /\ CtorIdle
    /\ DataIdle
    /\ ProxyIdle
    /\ DefsIdle
    /\ CmdIdle
    /\ HandleIdle
    /\ threaded_scan = FALSE
    /\ abort_run = FALSE
    /\ selected \in SUBSET ModuleNames \ {{}}
    /\ af_pc = "open"
    /\ to_open = selected
    /\ to_close = {}
    /\ sinks = [m \in ModuleNames |-> "none"]
    /\ file_keys = {}
    /\ af_exc = "none"

\* open_files, lines 1013-1021, one iteration: open_raw_data_file returns the
\* file object, which is entered in _raw_data_files
AfOpen ==
    /\ af_pc = "open"
    /\ IF to_open = {}
       THEN /\ af_pc' = "body"
            /\ UNCHANGED <<to_open, sinks, file_keys>>
       ELSE \E m \in to_open :
            /\ sinks' = [sinks EXCEPT ![m] = "open"]
            /\ file_keys' = file_keys \cup {m}
            /\ to_open' = to_open \ {m}
            /\ UNCHANGED af_pc
    /\ UNCHANGED <<notfiles, selected, to_close, af_exc>>

\* line 996, the yield: the body of the with block (scan()) returns or raises
AfBody ==
    /\ af_pc = "body"
    /\ \/ /\ af_pc' = "close"
          /\ to_close' = file_keys
          /\ UNCHANGED af_exc
       \/ /\ \E k \in FaultKinds : af_exc' = k
          /\ af_pc' = "finally"
          /\ UNCHANGED to_close
    /\ UNCHANGED <<notfiles, selected, to_open, sinks, file_keys>>

\* close_files, lines 1027-1031: close() on every value, then the dict is cleared
AfClose ==
    /\ af_pc = "close"
    /\ IF to_close = {}
       THEN /\ file_keys' = {}
            /\ af_pc' = "finally"
            /\ UNCHANGED <<to_close, sinks>>
       ELSE \E m \in to_close :
            /\ sinks' = [sinks EXCEPT ![m] = "closed"]
            /\ to_close' = to_close \ {m}
            /\ UNCHANGED <<af_pc, file_keys>>
    /\ UNCHANGED <<notfiles, selected, to_open, af_exc>>

\* the finally clause, lines 998-1001: the dict is cleared, raw_data_file is
\* set to None; a propagating exception goes on to the caller
AfFinally ==
    /\ af_pc = "finally"
    /\ file_keys' = {}
    /\ af_pc' = "left"
    /\ UNCHANGED <<notfiles, selected, to_open, to_close, sinks, af_exc>>

NextFiles == AfOpen \/ AfBody \/ AfClose \/ AfFinally

SpecFiles == InitFiles /\ [][NextFiles]_vars

\* C28 (sinks are closed): when the access_files block has been left, on any
\* path, no raw data file that open_files opened is still open.
C28_SinksClosed ==
    af_pc = "left" => \A m \in ModuleNames : sinks[m] # "open"

\* ============================================================ fei4_defines
\* the tables of src/pybar/fei4/fei4_defines.py

\* fei4a['commands'], lines 16-37: per command its bitstream split at '+'
\* and its bitlength (fei4b is a copy of fei4a with other global registers and
\* shares this table, lines 154-157)
fei4a_commands ==
       "LV1" :> [bitstream |-> <<"11101">>, bitlength |-> 5]
    @@ "BCR" :> [bitstream |-> <<"101100001">>, bitlength |-> 9]
    @@ "ECR" :> [bitstream |-> <<"101100010">>, bitlength |-> 9]
    @@ "CAL" :> [bitstream |-> <<"101100100">>, bitlength |-> 9]
    @@ "Slow" :> [bitstream |-> <<"101101000">>, bitlength |-> 9]
    @@ "RdRegister" :> [bitstream |-> <<"Slow", "0001", "ChipID", "Address">>, bitlength |-> 23]
    @@ "WrRegister" :> [bitstream |-> <<"Slow", "0010", "ChipID", "Address", "GlobalData">>, bitlength |-> 39]
    @@ "WrFrontEnd" :> [bitstream |-> <<"Slow", "0100", "ChipID", "000000", "PixelData">>, bitlength |-> 695]
    @@ "GlobalReset" :> [bitstream |-> <<"Slow", "1000", "ChipID">>, bitlength |-> 17]
    @@ "GlobalPulse" :> [bitstream |-> <<"Slow", "1001", "ChipID", "Width">>, bitlength |-> 23]
    @@ "RunMode" :> [bitstream |-> <<"Slow", "1010", "ChipID", "111000">>, bitlength |-> 23]
    @@ "ConfMode" :> [bitstream |-> <<"Slow", "1010", "ChipID", "000111">>, bitlength |-> 23]
    @@ "ChipID" :> [bitstream |-> <<>>, bitlength |-> 4]
    @@ "Address" :> [bitstream |-> <<>>, bitlength |-> 6]
    @@ "GlobalData" :> [bitstream |-> <<>>, bitlength |-> 16]
    @@ "PixelData" :> [bitstream |-> <<>>, bitlength |-> 672]
    @@ "Width" :> [bitstream |-> <<>>, bitlength |-> 6]

\* fei4a['global_registers'], lines 38-140, in the order of the source; the
\* offset is <<>> where the entry has no key 'offset'
fei4a_global_registers ==
    <<
      [name |-> "spare_1", address |-> 1, bitlength |-> 16, offset |-> <<>>],
      [name |-> "spare_2", address |-> 2, bitlength |-> 11, offset |-> <<>>],
      [name |-> "Conf_AddrEnable", address |-> 2, bitlength |-> 1, offset |-> <<11>>],
      [name |-> "Trig_Count", address |-> 2, bitlength |-> 4, offset |-> <<12>>],
      [name |-> "ErrorMask", address |-> 3, bitlength |-> 32, offset |-> <<>>],
      [name |-> "Vthin", address |-> 5, bitlength |-> 8, offset |-> <<>>],
      [name |-> "PrmpVbp_R", address |-> 5, bitlength |-> 8, offset |-> <<8>>],
      [name |-> "PrmpVbp", address |-> 6, bitlength |-> 8, offset |-> <<>>],
      [name |-> "DisVbn_CPPM", address |-> 6, bitlength |-> 8, offset |-> <<8>>],
      [name |-> "DisVbn", address |-> 7, bitlength |-> 8, offset |-> <<>>],
      [name |-> "TdacVbp", address |-> 7, bitlength |-> 8, offset |-> <<8>>],
      [name |-> "Amp2VbpFol", address |-> 8, bitlength |-> 8, offset |-> <<>>],
      [name |-> "Amp2Vbn", address |-> 8, bitlength |-> 8, offset |-> <<8>>],
      [name |-> "Amp2Vbp", address |-> 9, bitlength |-> 8, offset |-> <<>>],
      [name |-> "PrmpVbp_T", address |-> 9, bitlength |-> 8, offset |-> <<8>>],
      [name |-> "Amp2Vbpff", address |-> 10, bitlength |-> 8, offset |-> <<>>],
      [name |-> "FdacVbn", address |-> 10, bitlength |-> 8, offset |-> <<8>>],
      [name |-> "PrmpVbp_L", address |-> 11, bitlength |-> 8, offset |-> <<>>],
      [name |-> "PrmpVbnFol", address |-> 11, bitlength |-> 8, offset |-> <<8>>],
      [name |-> "PrmpVbnLcc", address |-> 12, bitlength |-> 8, offset |-> <<>>],
      [name |-> "PrmpVbpf", address |-> 12, bitlength |-> 8, offset |-> <<8>>],
      [name |-> "spare_13", address |-> 13, bitlength |-> 1, offset |-> <<>>],
      [name |-> "Pixel_Strobes", address |-> 13, bitlength |-> 13, offset |-> <<1>>],
      [name |-> "S0", address |-> 13, bitlength |-> 1, offset |-> <<14>>],
      [name |-> "S1", address |-> 13, bitlength |-> 1, offset |-> <<15>>],
      [name |-> "BonnDac", address |-> 14, bitlength |-> 8, offset |-> <<>>],
      [name |-> "LvdsDrvIref", address |-> 14, bitlength |-> 8, offset |-> <<8>>],
      [name |-> "LvdsDrvVos", address |-> 15, bitlength |-> 8, offset |-> <<>>],
      [name |-> "PllIbias", address |-> 15, bitlength |-> 8, offset |-> <<8>>],
      [name |-> "PllIcp", address |-> 16, bitlength |-> 8, offset |-> <<>>],
      [name |-> "TempSensIbias", address |-> 16, bitlength |-> 8, offset |-> <<8>>],
      [name |-> "PlsrIdacRamp", address |-> 17, bitlength |-> 8, offset |-> <<>>],
      [name |-> "spare_17", address |-> 17, bitlength |-> 8, offset |-> <<8>>],
      [name |-> "PlsrVgOpAmp", address |-> 18, bitlength |-> 8, offset |-> <<>>],
      [name |-> "spare_18", address |-> 18, bitlength |-> 8, offset |-> <<8>>],
      [name |-> "spare_19", address |-> 19, bitlength |-> 8, offset |-> <<>>],
      [name |-> "PlsrDacBias", address |-> 19, bitlength |-> 8, offset |-> <<8>>],
      [name |-> "Vthin_AltFine", address |-> 20, bitlength |-> 8, offset |-> <<>>],
      [name |-> "Vthin_AltCoarse", address |-> 20, bitlength |-> 8, offset |-> <<8>>],
      [name |-> "PlsrDAC", address |-> 21, bitlength |-> 10, offset |-> <<>>],
      [name |-> "DIGHITIN_SEL", address |-> 21, bitlength |-> 1, offset |-> <<10>>],
      [name |-> "DINJ_OVERRIDE", address |-> 21, bitlength |-> 1, offset |-> <<11>>],
      [name |-> "HITLD_IN", address |-> 21, bitlength |-> 1, offset |-> <<12>>],
      [name |-> "spare_21", address |-> 21, bitlength |-> 3, offset |-> <<13>>],
      [name |-> "spare_22_0", address |-> 22, bitlength |-> 2, offset |-> <<>>],
      [name |-> "Colpr_Addr", address |-> 22, bitlength |-> 6, offset |-> <<2>>],
      [name |-> "Colpr_Mode", address |-> 22, bitlength |-> 2, offset |-> <<8>>],
      [name |-> "spare_22_1", address |-> 22, bitlength |-> 6, offset |-> <<10>>],
      [name |-> "DisableColumnCnfg", address |-> 23, bitlength |-> 40, offset |-> <<>>],
      [name |-> "Trig_Lat", address |-> 25, bitlength |-> 8, offset |-> <<8>>],
      [name |-> "HitDiscCnfg", address |-> 26, bitlength |-> 2, offset |-> <<>>],
      [name |-> "StopModeCnfg", address |-> 26, bitlength |-> 1, offset |-> <<2>>],
      [name |-> "CMDcnt", address |-> 26, bitlength |-> 14, offset |-> <<3>>],
      [name |-> "SR_Clock", address |-> 27, bitlength |-> 1, offset |-> <<1>>],
      [name |-> "Latch_En", address |-> 27, bitlength |-> 1, offset |-> <<2>>],
      [name |-> "SR_Clr", address |-> 27, bitlength |-> 1, offset |-> <<3>>],
      [name |-> "CalEn", address |-> 27, bitlength |-> 1, offset |-> <<4>>],
      [name |-> "GateHitOr", address |-> 27, bitlength |-> 1, offset |-> <<5>>],
      [name |-> "spare_27", address |-> 27, bitlength |-> 5, offset |-> <<6>>],
      [name |-> "ReadSkipped", address |-> 27, bitlength |-> 1, offset |-> <<11>>],
      [name |-> "ReadErrorReq", address |-> 27, bitlength |-> 1, offset |-> <<12>>],
      [name |-> "StopClkPulse", address |-> 27, bitlength |-> 1, offset |-> <<13>>],
      [name |-> "Efuse_Sense", address |-> 27, bitlength |-> 1, offset |-> <<14>>],
      [name |-> "EN_PLL", address |-> 27, bitlength |-> 1, offset |-> <<15>>],
      [name |-> "EN_320M", address |-> 28, bitlength |-> 1, offset |-> <<>>],
      [name |-> "EN_160M", address |-> 28, bitlength |-> 1, offset |-> <<1>>],
      [name |-> "CLK0_S2", address |-> 28, bitlength |-> 1, offset |-> <<2>>],
      [name |-> "CLK0_S1", address |-> 28, bitlength |-> 1, offset |-> <<3>>],
      [name |-> "CLK0_S0", address |-> 28, bitlength |-> 1, offset |-> <<4>>],
      [name |-> "CLK1_S2", address |-> 28, bitlength |-> 1, offset |-> <<5>>],
      [name |-> "CLK1_S1", address |-> 28, bitlength |-> 1, offset |-> <<6>>],
      [name |-> "CLK1_S0", address |-> 28, bitlength |-> 1, offset |-> <<7>>],
      [name |-> "EN_80M", address |-> 28, bitlength |-> 1, offset |-> <<8>>],
      [name |-> "EN_40M", address |-> 28, bitlength |-> 1, offset |-> <<9>>],
      [name |-> "spare_28", address |-> 28, bitlength |-> 5, offset |-> <<10>>],
      [name |-> "LvdsDrvSet06", address |-> 28, bitlength |-> 1, offset |-> <<15>>],
      [name |-> "LvdsDrvSet12", address |-> 29, bitlength |-> 1, offset |-> <<0>>],
      [name |-> "LvdsDrvSet30", address |-> 29, bitlength |-> 1, offset |-> <<1>>],
      [name |-> "LvdsDrvEn", address |-> 29, bitlength |-> 1, offset |-> <<2>>],
      [name |-> "spare_29_0", address |-> 29, bitlength |-> 1, offset |-> <<3>>],
      [name |-> "EmptyRecordCnfg", address |-> 29, bitlength |-> 8, offset |-> <<4>>],
      [name |-> "Clk2OutCnfg", address |-> 29, bitlength |-> 1, offset |-> <<12>>],
      [name |-> "No8b10b", address |-> 29, bitlength |-> 1, offset |-> <<13>>],
      [name |-> "spare_29_1", address |-> 29, bitlength |-> 2, offset |-> <<14>>],
      [name |-> "spare_30", address |-> 30, bitlength |-> 16, offset |-> <<>>],
      [name |-> "spare_31", address |-> 31, bitlength |-> 4, offset |-> <<>>],
      [name |-> "ExtAnaCalSW", address |-> 31, bitlength |-> 1, offset |-> <<4>>],
      [name |-> "ExtDigCalSW", address |-> 31, bitlength |-> 1, offset |-> <<5>>],
      [name |-> "PlsrDelay", address |-> 31, bitlength |-> 6, offset |-> <<6>>],
      [name |-> "PlsrPwr", address |-> 31, bitlength |-> 1, offset |-> <<12>>],
      [name |-> "PlsrRiseUpTau", address |-> 31, bitlength |-> 3, offset |-> <<13>>],
      [name |-> "SELB", address |-> 32, bitlength |-> 40, offset |-> <<>>],
      [name |-> "spare_34", address |-> 34, bitlength |-> 4, offset |-> <<8>>],
      [name |-> "Cref", address |-> 34, bitlength |-> 4, offset |-> <<12>>],
      [name |-> "Chip_SN", address |-> 35, bitlength |-> 16, offset |-> <<>>],
      [name |-> "0_64", address |-> 36, bitlength |-> 64, offset |-> <<>>],
      [name |-> "0010101010101010", address |-> 40, bitlength |-> 16, offset |-> <<>>],
      [name |-> "10101010", address |-> 41, bitlength |-> 8, offset |-> <<>>],
      [name |-> "EOCHLSkipped", address |-> 41, bitlength |-> 8, offset |-> <<8>>],
      [name |-> "CMDErrReg", address |-> 42, bitlength |-> 16, offset |-> <<>>],
      [name |-> "0_336", address |-> 43, bitlength |-> 336, offset |-> <<>>]
    >>

\* fei4b['global_registers'], lines 156-271
fei4b_global_registers ==
    <<
      [name |-> "spare_0", address |-> 0, bitlength |-> 16, offset |-> <<>>],
      [name |-> "EventLimit", address |-> 1, bitlength |-> 8, offset |-> <<>>],
      [name |-> "SmallHitErase", address |-> 1, bitlength |-> 1, offset |-> <<8>>],
      [name |-> "spare_1", address |-> 1, bitlength |-> 7, offset |-> <<9>>],
      [name |-> "spare_2", address |-> 2, bitlength |-> 11, offset |-> <<>>],
      [name |-> "Conf_AddrEnable", address |-> 2, bitlength |-> 1, offset |-> <<11>>],
      [name |-> "Trig_Count", address |-> 2, bitlength |-> 4, offset |-> <<12>>],
      [name |-> "ErrorMask", address |-> 3, bitlength |-> 32, offset |-> <<>>],
      [name |-> "GADCVref", address |-> 5, bitlength |-> 8, offset |-> <<>>],
      [name |-> "PrmpVbp_R", address |-> 5, bitlength |-> 8, offset |-> <<8>>],
      [name |-> "PrmpVbp", address |-> 6, bitlength |-> 8, offset |-> <<>>],
      [name |-> "spare_6", address |-> 6, bitlength |-> 8, offset |-> <<8>>],
      [name |-> "DisVbn", address |-> 7, bitlength |-> 8, offset |-> <<>>],
      [name |-> "TdacVbp", address |-> 7, bitlength |-> 8, offset |-> <<8>>],
      [name |-> "Amp2VbpFol", address |-> 8, bitlength |-> 8, offset |-> <<>>],
      [name |-> "Amp2Vbn", address |-> 8, bitlength |-> 8, offset |-> <<8>>],
      [name |-> "Amp2Vbp", address |-> 9, bitlength |-> 8, offset |-> <<>>],
      [name |-> "spare_9", address |-> 9, bitlength |-> 8, offset |-> <<8>>],
      [name |-> "Amp2Vbpff", address |-> 10, bitlength |-> 8, offset |-> <<>>],
      [name |-> "FdacVbn", address |-> 10, bitlength |-> 8, offset |-> <<8>>],
      [name |-> "PrmpVbp_L", address |-> 11, bitlength |-> 8, offset |-> <<>>],
      [name |-> "PrmpVbnFol", address |-> 11, bitlength |-> 8, offset |-> <<8>>],
      [name |-> "PrmpVbnLcc", address |-> 12, bitlength |-> 8, offset |-> <<>>],
      [name |-> "PrmpVbpf", address |-> 12, bitlength |-> 8, offset |-> <<8>>],
      [name |-> "spare_13", address |-> 13, bitlength |-> 1, offset |-> <<>>],
      [name |-> "Pixel_Strobes", address |-> 13, bitlength |-> 13, offset |-> <<1>>],
      [name |-> "S0", address |-> 13, bitlength |-> 1, offset |-> <<14>>],
      [name |-> "S1", address |-> 13, bitlength |-> 1, offset |-> <<15>>],
      [name |-> "GADCCompBias", address |-> 14, bitlength |-> 8, offset |-> <<>>],
      [name |-> "LVDSDrvIref", address |-> 14, bitlength |-> 8, offset |-> <<8>>],
      [name |-> "LvdsDrvVos", address |-> 15, bitlength |-> 8, offset |-> <<>>],
      [name |-> "PllIbias", address |-> 15, bitlength |-> 8, offset |-> <<8>>],
      [name |-> "PllIcp", address |-> 16, bitlength |-> 8, offset |-> <<>>],
      [name |-> "TempSensIbias", address |-> 16, bitlength |-> 8, offset |-> <<8>>],
      [name |-> "PlsrIdacRamp", address |-> 17, bitlength |-> 8, offset |-> <<>>],
      [name |-> "spare_17", address |-> 17, bitlength |-> 8, offset |-> <<8>>],
      [name |-> "PlsrVgOpAmp", address |-> 18, bitlength |-> 8, offset |-> <<>>],
      [name |-> "VrefDigTune", address |-> 18, bitlength |-> 8, offset |-> <<8>>],
      [name |-> "VrefAnTune", address |-> 19, bitlength |-> 8, offset |-> <<>>],
      [name |-> "PlsrDacBias", address |-> 19, bitlength |-> 8, offset |-> <<8>>],
      [name |-> "Vthin_AltFine", address |-> 20, bitlength |-> 8, offset |-> <<>>],
      [name |-> "Vthin_AltCoarse", address |-> 20, bitlength |-> 8, offset |-> <<8>>],
      [name |-> "PlsrDAC", address |-> 21, bitlength |-> 10, offset |-> <<>>],
      [name |-> "DIGHITIN_SEL", address |-> 21, bitlength |-> 1, offset |-> <<10>>],
      [name |-> "DINJ_OVERRIDE", address |-> 21, bitlength |-> 1, offset |-> <<11>>],
      [name |-> "HITLD_IN", address |-> 21, bitlength |-> 1, offset |-> <<12>>],
      [name |-> "spare_21", address |-> 21, bitlength |-> 3, offset |-> <<13>>],
      [name |-> "spare_22_0", address |-> 22, bitlength |-> 2, offset |-> <<>>],
      [name |-> "Colpr_Addr", address |-> 22, bitlength |-> 6, offset |-> <<2>>],
      [name |-> "Colpr_Mode", address |-> 22, bitlength |-> 2, offset |-> <<8>>],
      [name |-> "spare_22_1", address |-> 22, bitlength |-> 6, offset |-> <<10>>],
      [name |-> "DisableColumnCnfg", address |-> 23, bitlength |-> 40, offset |-> <<>>],
      [name |-> "Trig_Lat", address |-> 25, bitlength |-> 8, offset |-> <<8>>],
      [name |-> "HitDiscCnfg", address |-> 26, bitlength |-> 2, offset |-> <<>>],
      [name |-> "StopModeCnfg", address |-> 26, bitlength |-> 1, offset |-> <<2>>],
      [name |-> "CMDcnt", address |-> 26, bitlength |-> 14, offset |-> <<3>>],
      [name |-> "SR_Clock", address |-> 27, bitlength |-> 1, offset |-> <<1>>],
      [name |-> "Latch_En", address |-> 27, bitlength |-> 1, offset |-> <<2>>],
      [name |-> "SR_Clr", address |-> 27, bitlength |-> 1, offset |-> <<3>>],
      [name |-> "CalEn", address |-> 27, bitlength |-> 1, offset |-> <<4>>],
      [name |-> "GateHitOr", address |-> 27, bitlength |-> 1, offset |-> <<5>>],
      [name |-> "spare_27_0", address |-> 27, bitlength |-> 3, offset |-> <<6>>],
      [name |-> "SR_Read", address |-> 27, bitlength |-> 1, offset |-> <<9>>],
      [name |-> "GADCStart", address |-> 27, bitlength |-> 1, offset |-> <<10>>],
      [name |-> "spare_27_1", address |-> 27, bitlength |-> 1, offset |-> <<11>>],
      [name |-> "ReadErrorReq", address |-> 27, bitlength |-> 1, offset |-> <<12>>],
      [name |-> "StopClkPulse", address |-> 27, bitlength |-> 1, offset |-> <<13>>],
      [name |-> "Efuse_Sense", address |-> 27, bitlength |-> 1, offset |-> <<14>>],
      [name |-> "EN_PLL", address |-> 27, bitlength |-> 1, offset |-> <<15>>],
      [name |-> "EN_320M", address |-> 28, bitlength |-> 1, offset |-> <<>>],
      [name |-> "EN_160M", address |-> 28, bitlength |-> 1, offset |-> <<1>>],
      [name |-> "CLK0_S2", address |-> 28, bitlength |-> 1, offset |-> <<2>>],
      [name |-> "CLK0_S1", address |-> 28, bitlength |-> 1, offset |-> <<3>>],
      [name |-> "CLK0_S0", address |-> 28, bitlength |-> 1, offset |-> <<4>>],
      [name |-> "CLK1_S2", address |-> 28, bitlength |-> 1, offset |-> <<5>>],
      [name |-> "CLK1_S1", address |-> 28, bitlength |-> 1, offset |-> <<6>>],
      [name |-> "CLK1_S0", address |-> 28, bitlength |-> 1, offset |-> <<7>>],
      [name |-> "EN_80M", address |-> 28, bitlength |-> 1, offset |-> <<8>>],
      [name |-> "EN_40M", address |-> 28, bitlength |-> 1, offset |-> <<9>>],
      [name |-> "spare_28", address |-> 28, bitlength |-> 5, offset |-> <<10>>],
      [name |-> "LvdsDrvSet06", address |-> 28, bitlength |-> 1, offset |-> <<15>>],
      [name |-> "LvdsDrvSet12", address |-> 29, bitlength |-> 1, offset |-> <<0>>],
      [name |-> "LvdsDrvSet30", address |-> 29, bitlength |-> 1, offset |-> <<1>>],
      [name |-> "LvdsDrvEn", address |-> 29, bitlength |-> 1, offset |-> <<2>>],
      [name |-> "spare_29_0", address |-> 29, bitlength |-> 1, offset |-> <<3>>],
      [name |-> "EmptyRecordCnfg", address |-> 29, bitlength |-> 8, offset |-> <<4>>],
      [name |-> "Clk2OutCnfg", address |-> 29, bitlength |-> 1, offset |-> <<12>>],
      [name |-> "No8b10b", address |-> 29, bitlength |-> 1, offset |-> <<13>>],
      [name |-> "spare_29_1", address |-> 29, bitlength |-> 2, offset |-> <<14>>],
      [name |-> "spare_30", address |-> 30, bitlength |-> 12, offset |-> <<>>],
      [name |-> "MonleakRange", address |-> 30, bitlength |-> 1, offset |-> <<12>>],
      [name |-> "TempSensDisable", address |-> 30, bitlength |-> 1, offset |-> <<13>>],
      [name |-> "TempSensDiodeBiasSel", address |-> 30, bitlength |-> 2, offset |-> <<14>>],
      [name |-> "GADCSel", address |-> 31, bitlength |-> 3, offset |-> <<>>],
      [name |-> "spare_31", address |-> 31, bitlength |-> 1, offset |-> <<3>>],
      [name |-> "ExtAnaCalSW", address |-> 31, bitlength |-> 1, offset |-> <<4>>],
      [name |-> "ExtDigCalSW", address |-> 31, bitlength |-> 1, offset |-> <<5>>],
      [name |-> "PlsrDelay", address |-> 31, bitlength |-> 6, offset |-> <<6>>],
      [name |-> "PlsrPwr", address |-> 31, bitlength |-> 1, offset |-> <<12>>],
      [name |-> "PlsrRiseUpTau", address |-> 31, bitlength |-> 3, offset |-> <<13>>],
      [name |-> "SELB", address |-> 32, bitlength |-> 40, offset |-> <<>>],
      [name |-> "spare_34_0", address |-> 34, bitlength |-> 3, offset |-> <<8>>],
      [name |-> "PrmpVbpMsbEn", address |-> 34, bitlength |-> 1, offset |-> <<11>>],
      [name |-> "spare_34_1", address |-> 34, bitlength |-> 4, offset |-> <<12>>],
      [name |-> "Chip_SN", address |-> 35, bitlength |-> 16, offset |-> <<>>],
      [name |-> "0_64", address |-> 36, bitlength |-> 64, offset |-> <<>>],
      [name |-> "GADCSelRB", address |-> 40, bitlength |-> 3, offset |-> <<>>],
      [name |-> "GADCStatus", address |-> 40, bitlength |-> 1, offset |-> <<3>>],
      [name |-> "GADCout", address |-> 40, bitlength |-> 10, offset |-> <<4>>],
      [name |-> "00", address |-> 40, bitlength |-> 2, offset |-> <<14>>],
      [name |-> "10101010", address |-> 41, bitlength |-> 8, offset |-> <<>>],
      [name |-> "EOCHLSkipped", address |-> 41, bitlength |-> 8, offset |-> <<8>>],
      [name |-> "CMDErrReg", address |-> 42, bitlength |-> 16, offset |-> <<>>],
      [name |-> "0_336", address |-> 43, bitlength |-> 336, offset |-> <<>>]
    >>

\* fei4b['commands'] is fei4a['commands'] (d = dict(fei4a), line 153)
CommandsOf(fl) == fei4a_commands
GlobalRegistersOf(fl) ==
    IF fl = "fei4a" THEN fei4a_global_registers ELSE fei4b_global_registers

\* the slow commands, lines 24-30
SlowCommands ==
    {"RdRegister", "WrRegister", "WrFrontEnd", "GlobalReset", "GlobalPulse", "RunMode",
     "ConfMode"}

\* every segment taken for a literal bit string
SegLenChars(fl, seg) == Len(seg)

\* the length of a segment of a bitstream: the bitlength of the entry it names
\* (the header 'Slow', a field such as 'ChipID'), or the number of its
\* characters if it is a literal bit string
SegLen(fl, seg) ==
    IF seg \in DOMAIN CommandsOf(fl) THEN CommandsOf(fl)[seg].bitlength ELSE Len(seg)

\* an offset that is never read
OffsetIgnored(e) == 0

\* the offset of a register entry, 0 where the key is missing
Offset(e) == IF e.offset = <<>> THEN 0 ELSE e.offset[1]

\* the first and the one after the last bit an entry occupies, counted from
\* bit 0 of address 0 in words of 16 bits
FirstBit(e) == 16 * e.address + Offset(e)
EndBit(e) == FirstBit(e) + e.bitlength

\* the variables the walk of the tables leaves alone
notdefs == <<threaded_scan, abort_run, rvars, runvars, evars, cvars, hvars, pvars, fvars,
            kvars, nvars>>

\* a walk starts: over the bitstream of a slow command or over the global
\* registers of a flavor
InitDefs ==
    /\ ReadoutIdle
    /\ RunIdle
    /\ ErrIdle
    /\ CtorIdle
    /\ DataIdle
    /\ ProxyIdle
    /\ FilesIdle
    /\ CmdIdle
    /\ HandleIdle
    /\ threaded_scan = FALSE
    /\ abort_run = FALSE
    /\ flavor \in Flavors
    /\ cmd \in SlowCommands \cup {"none"}
    /\ seg_i = 0
    /\ seg_sum = 0
    /\ reg_i = 0

\* the next segment of the command's bitstream is added
SegStep ==
    /\ cmd # "none"
    /\ seg_i < Len(CommandsOf(flavor)[cmd].bitstream)
    /\ seg_i' = seg_i + 1
    /\ seg_sum' = seg_sum + SegLen(flavor, CommandsOf(flavor)[cmd].bitstream[seg_i + 1])
    /\ UNCHANGED <<notdefs, flavor, cmd, reg_i>>

\* the next global register entry is visited
RegStep ==
    /\ cmd = "none"
    /\ reg_i < Len(GlobalRegistersOf(flavor))
    /\ reg_i' = reg_i + 1
    /\ UNCHANGED <<notdefs, flavor, cmd, seg_i, seg_sum>>

NextDefs == SegStep \/ RegStep

SpecDefs == InitDefs /\ [][NextDefs]_vars

\* C29 (command template lengths): for every slow command of both flavors the
\* lengths of the segments of its bitstream add up to its declared bitlength,
\* which is the total of the wire-format table: 23, 39, 695, 17, 23, 23, 23.
C29_CommandLengths ==
    LET total == [c \in SlowCommands |->
                    CASE c = "RdRegister" -> 23
                      [] c = "WrRegister" -> 39
                      [] c = "WrFrontEnd" -> 695
                      [] c = "GlobalReset" -> 17
                      [] OTHER -> 23]
    IN  (cmd # "none" /\ seg_i = Len(fei4a_commands[cmd].bitstream)) =>
            /\ seg_sum = fei4a_commands[cmd].bitlength
            /\ seg_sum = total[cmd]

\* C29 witness: the bitstream of WrFrontEnd of fei4b has been summed to 695.
C29_Witness ==
    /\ flavor = "fei4b"
    /\ cmd = "WrFrontEnd"
    /\ seg_i = 5
    /\ seg_sum = 695

\* C30 as stated (register fits its word): every global register entry of
\* both tables has offset + bitlength <= 16, a missing offset counting as 0.
C30_RegisterFitsWord ==
    (cmd = "none" /\ reg_i > 0) =>
        LET e == (IF flavor = "fei4a" THEN fei4a_global_registers
                  ELSE fei4b_global_registers)[reg_i]
        IN  (IF e.offset = <<>> THEN 0 ELSE e.offset[1]) + e.bitlength <= 16

\* C30, amended: every global register entry of both tables starts inside its
\* word (offset 0..15) and has at least one bit; it ends inside its word
\* except ErrorMask, DisableColumnCnfg, CMDcnt, SELB, 0_64 and 0_336, which go
\* on into the words of the following addresses; no two entries of a table
\* share a bit.
C30_RegistersStartInWordNoOverlap ==
    (cmd = "none" /\ reg_i > 0) =>
        LET table == GlobalRegistersOf(flavor)
            e == table[reg_i]
        IN  /\ Offset(e) \in 0..15
            /\ e.bitlength >= 1
            /\ (Offset(e) + e.bitlength > 16) <=>
                  (e.name \in {"ErrorMask", "DisableColumnCnfg", "CMDcnt", "SELB",
                               "0_64", "0_336"})
            /\ \A j \in DOMAIN table :
                  j # reg_i => (EndBit(table[j]) <= FirstBit(e) \/ EndBit(e) <= FirstBit(table[j]))

\* C30 witness: the walk over the fei4b table has visited CMDcnt, which starts
\* at bit 3 of its word and has 14 bits.
C30_Witness ==
    /\ cmd = "none"
    /\ flavor = "fei4b"
    /\ reg_i > 0
    /\ fei4b_global_registers[reg_i].name = "CMDcnt"

\* ------------------------------------------------------- command encoder

\* the named fields of the commands table, lines 32-36
FieldNames == {"ChipID", "Address", "GlobalData", "PixelData", "Width"}

\* the commands of the table that are sent: lines 18-21 and 24-30
CommandNames == {"LV1", "BCR", "ECR", "CAL"} \cup SlowCommands

\* a literal bit string of the table as its bits
LiteralBits(seg) ==
    CASE seg = "11101" -> <<1, 1, 1, 0, 1>>
      [] seg = "101100001" -> <<1, 0, 1, 1, 0, 0, 0, 0, 1>>
      [] seg = "101100010" -> <<1, 0, 1, 1, 0, 0, 0, 1, 0>>
      [] seg = "101100100" -> <<1, 0, 1, 1, 0, 0, 1, 0, 0>>
      [] seg = "101101000" -> <<1, 0, 1, 1, 0, 1, 0, 0, 0>>
      [] seg = "0001" -> <<0, 0, 0, 1>>
      [] seg = "0010" -> <<0, 0, 1, 0>>
      [] seg = "0100" -> <<0, 1, 0, 0>>
      [] seg = "1000" -> <<1, 0, 0, 0>>
      [] seg = "1001" -> <<1, 0, 0, 1>>
      [] seg = "1010" -> <<1, 0, 1, 0>>
      [] seg = "000000" -> <<0, 0, 0, 0, 0, 0>>
      [] seg = "111000" -> <<1, 1, 1, 0, 0, 0>>
      [] seg = "000111" -> <<0, 0, 0, 1, 1, 1>>

\* the template of a command: the segments of its bitstream, split at '+'
TemplateReversed(fl, name) ==
    LET t == CommandsOf(fl)[name].bitstream
    IN  [i \in 1..Len(t) |-> t[Len(t) + 1 - i]]

TemplateOf(fl, name) == CommandsOf(fl)[name].bitstream

\* the fields a template names
TemplateFields(fl, name) ==
    {TemplateOf(fl, name)[i] : i \in 1..Len(TemplateOf(fl, name))} \cap FieldNames

\* 2^n for the exponents an integer of the model can hold, 0 beyond
Pow2(n) == IF n < 31 THEN 2 ^ n ELSE 0

\* a value does not fit w bits (the values of the model are below 2^31)
TooWide(v, w) == w < 31 /\ v >= Pow2(w)

\* a value as w bits, the least significant bit first
ValueBitsLsbFirst(v, w) ==
    [i \in 1..w |-> IF i - 1 >= 31 THEN 0 ELSE (v \div Pow2(i - 1)) % 2]

\* a value as w bits, the most significant bit first
ValueBits(v, w) ==
    [i \in 1..w |-> IF w - i >= 31 THEN 0 ELSE (v \div Pow2(w - i)) % 2]

\* the value of a bit sequence read with the least significant bit first
RECURSIVE BitsValueLsbFirst(_)
BitsValueLsbFirst(bits) ==
    IF bits = <<>> THEN 0
    ELSE IF Len(bits) = 1 THEN bits[1]
    ELSE LET n == Len(bits) \div 2
             low == BitsValueLsbFirst(SubSeq(bits, 1, n))
             high == BitsValueLsbFirst(SubSeq(bits, n + 1, Len(bits)))
         IN  IF low < 0 \/ high < 0 THEN -1
             ELSE IF high = 0 THEN low
             ELSE IF n >= 31 \/ high >= Pow2(31 - n) THEN -1
             ELSE high * Pow2(n) + low

\* the value of a bit sequence read with the most significant bit first, by
\* halves: the left half counts 2^(length of the right half) times; -1 for
\* a value no integer of the model can hold
RECURSIVE BitsValue(_)
BitsValue(bits) ==
    IF bits = <<>> THEN 0
    ELSE IF Len(bits) = 1 THEN bits[1]
    ELSE LET n == Len(bits) \div 2
             left == BitsValue(SubSeq(bits, 1, Len(bits) - n))
             right == BitsValue(SubSeq(bits, Len(bits) - n + 1, Len(bits)))
         IN  IF left < 0 \/ right < 0 THEN -1
             ELSE IF left = 0 THEN right
             ELSE IF n >= 31 \/ left >= Pow2(31 - n) THEN -1
             ELSE left * Pow2(n) + right

\* the bits of one segment of a template: the header 'Slow', a field with
\* its value, or a literal
SegBits(fl, seg, fields) ==
    IF seg \in FieldNames THEN ValueBits(fields[seg], CommandsOf(fl)[seg].bitlength)
    ELSE IF seg \in DOMAIN CommandsOf(fl) THEN LiteralBits(CommandsOf(fl)[seg].bitstream[1])
    ELSE LiteralBits(seg)

RECURSIVE Pack(_, _, _)
Pack(fl, segs, fields) ==
    IF segs = <<>> THEN <<>>
    ELSE SegBits(fl, Head(segs), fields) \o Pack(fl, Tail(segs), fields)

\* encode(command_name, fields)
Encode(fl, name, fields) ==
    IF \E f \in DOMAIN fields : f \notin TemplateFields(fl, name)
    THEN [err |-> "UnknownField", bits |-> <<>>]
    ELSE IF \E f \in DOMAIN fields : TooWide(fields[f], CommandsOf(fl)[f].bitlength)
    THEN [err |-> "FieldTooWide", bits |-> <<>>]
    ELSE [err |-> "none", bits |-> Pack(fl, TemplateOf(fl, name), fields)]

\* the position before segment i of a template
RECURSIVE SegStart(_, _, _)
SegStart(fl, segs, i) ==
    IF i = 1 THEN 0 ELSE SegStart(fl, segs, i - 1) + SegLen(fl, segs[i - 1])

\* decode(bitstring, command_name)
Decode(fl, bits, name) ==
    LET segs == TemplateOf(fl, name)
    IN  [f \in TemplateFields(fl, name) |->
            LET i == CHOOSE k \in 1..Len(segs) : segs[k] = f
                a == SegStart(fl, segs, i)
            IN  BitsValue(SubSeq(bits, a + 1, a + SegLen(fl, f)))]

\* the values the fields are given: the ends of each range, the values of
\* the WrRegister scenario, and one value that is too wide where an integer
\* of the model can hold it
FieldValues(f) ==
    CASE f = "ChipID" -> {0, 3, 8, 15, 16}
      [] f = "Address" -> {0, 5, 63}
      [] f = "GlobalData" -> {0, 255, 65535, 65536}
      [] f = "PixelData" -> {0, 1, 43690, 1073741827}
      [] f = "Width" -> {0, 42, 63}

\* the variables building a command leaves alone
notcmd == <<threaded_scan, abort_run, rvars, runvars, evars, cvars, hvars, pvars, fvars,
            tvars, nvars>>

\* a command is to be built for a flavor: its fields, or its fields and one
\* more, are given values
InitCmd ==
    /\ ReadoutIdle
    /\ RunIdle
    /\ ErrIdle
    /\ CtorIdle
    /\ DataIdle
    /\ ProxyIdle
    /\ FilesIdle
    /\ threaded_scan = FALSE
    /\ abort_run = FALSE
    /\ flavor \in Flavors
    /\ cmd = "none"
    /\ seg_i = 0
    /\ seg_sum = 0
    /\ reg_i = 0
    /\ HandleIdle
    /\ cmd_name \in CommandNames
    /\ \E more \in {{}, {"Width"}} :
          cmd_fields \in
              {fs \in [TemplateFields(flavor, cmd_name) \cup more ->
                            UNION {FieldValues(f) : f \in FieldNames}] :
                  \A f \in DOMAIN fs : fs[f] \in FieldValues(f)}
    /\ cmd_pc = "given"
    /\ cmd_bits = [err |-> "none", bits |-> <<>>]
    /\ cmd_decoded = <<>>

\* encode is called
BuildCommand ==
    /\ cmd_pc = "given"
    /\ cmd_bits' = Encode(flavor, cmd_name, cmd_fields)
    /\ cmd_pc' = "encoded"
    /\ UNCHANGED <<notcmd, cmd_name, cmd_fields, cmd_decoded>>

\* decode is called with what encode returned
DecodeCommand ==
    /\ cmd_pc = "encoded"
    /\ cmd_bits.err = "none"
    /\ cmd_decoded' = Decode(flavor, cmd_bits.bits, cmd_name)
    /\ cmd_pc' = "decoded"
    /\ UNCHANGED <<notcmd, cmd_name, cmd_fields, cmd_bits>>

NextCmd == BuildCommand \/ DecodeCommand

SpecCmd == InitCmd /\ [][NextCmd]_vars

\* C31 (WriteRegister layout): WrRegister encoded with ChipID = 3,
\* Address = 5 and GlobalData = 0x00FF is exactly the 39 bits of the header
\* 101101000, the opcode 0010, ChipID 0011, Address 000101 and GlobalData
\* 0000000011111111, in this order.
C31_WrRegisterLayout ==
    (/\ cmd_pc # "given"
     /\ cmd_name = "WrRegister"
     /\ cmd_fields = [f \in {"ChipID", "Address", "GlobalData"} |->
                        CASE f = "ChipID" -> 3 [] f = "Address" -> 5 [] OTHER -> 255]) =>
        /\ cmd_bits.err = "none"
        /\ Len(cmd_bits.bits) = 39
        /\ cmd_bits.bits = <<1, 0, 1, 1, 0, 1, 0, 0, 0,   0, 0, 1, 0,   0, 0, 1, 1,
                             0, 0, 0, 1, 0, 1,
                             0, 0, 0, 0, 0, 0, 0, 0, 1, 1, 1, 1, 1, 1, 1, 1>>

\* C31 witness: WrRegister of fei4b has been encoded with the values of the
\* scenario.
C31_Witness ==
    /\ flavor = "fei4b"
    /\ cmd_pc = "encoded"
    /\ cmd_name = "WrRegister"
    /\ DOMAIN cmd_fields = {"ChipID", "Address", "GlobalData"}
    /\ cmd_fields["ChipID"] = 3
    /\ cmd_fields["Address"] = 5
    /\ cmd_fields["GlobalData"] = 255
    /\ Len(cmd_bits.bits) = 39

ScanStarts ==
    {i \in DOMAIN calls : calls[i][1] = (IF threaded_scan THEN "start" ELSE "scan")}

\* the position of the last reset of receiver and FIFO before position i, 0
\* if there is none
LastResetBefore(i) ==
    IF \E j \in 1..(i - 1) : calls[j][1] = "reset"
    THEN CHOOSE j \in 1..(i - 1) :
            /\ calls[j][1] = "reset"
            /\ \A k \in (j + 1)..(i - 1) : calls[k][1] # "reset"
    ELSE 0

\* C33 (readout primed after run mode): in every strategy, when a scan
\* starts, receiver and FIFO have been reset before it, the unit scanned was
\* put in run mode before that last reset and not put back in conf mode
\* since, and no set_run_mode lies between the last reset and the start.
C33_PrimedAfterRunMode ==
    \A i \in ScanStarts :
        LET r == LastResetBefore(i)
        IN  /\ r > 0
            /\ \A k \in (r + 1)..(i - 1) : calls[k][1] # "set_run_mode"
            /\ \E k \in 1..(r - 1) :
                  /\ calls[k] = <<"set_run_mode", calls[i][2]>>
                  /\ \A n \in (k + 1)..(i - 1) : calls[n] # <<"set_conf_mode", calls[i][2]>>

\* C33 witness: individual + threaded, a round of two modules: the second
\* scan thread has been started after both modules were put in run mode.
C33_Witness ==
    /\ threaded_scan
    /\ ~broadcast_commands
    /\ \E i \in ScanStarts :
          /\ \E j \in ScanStarts : j < i /\ LastResetBefore(j) = LastResetBefore(i)
          /\ Cardinality({k \in 1..LastResetBefore(i) : calls[k][1] = "set_run_mode"}) >= 2

\* ------------------------------------------------ current_module_handle

\* ids are character sequences; the characters of the model
Chars == {"m", "g", "1", "0"}

\* the reserved name "module_group" of line 178, and the prefix
\* "module_group_TX=" of line 237, shortened
ReservedName == <<"m", "g">>
TxPrefix == <<"m", "g", "=">>

\* Python's `a in b` for strings
IsSubstring(a, b) ==
    \E i \in 0..(Len(b) - Len(a)) : SubSeq(b, i + 1, i + Len(a)) = a

\* the module ids _parse_module_cfgs accepts, line 178: strings of one or two
\* characters without the reserved name
ModuleIdStrings ==
    {s \in UNION {[1..n -> Chars] : n \in 1..2} : ~IsSubstring(ReservedName, s)}

\* the TX driver names of the model
TxStrings == {<<"1">>, <<"1", "0">>}

\* the variables reading the property leaves alone
nothandle == <<threaded_scan, abort_run, rvars, runvars, evars, cvars, hvars, pvars, fvars,
               tvars, kvars>>

\* one or two modules on one or two command lines have been set up (lines
\* 199 and 237: the module ids and "module_group_TX=" + tx are keys of
\* _module_cfgs); a thread named after a module or a group reads the property,
\* with no handle or one of the keys selected
InitHandle ==
    /\ ReadoutIdle
    /\ RunIdle
    /\ ErrIdle
    /\ CtorIdle
    /\ DataIdle
    /\ ProxyIdle
    /\ FilesIdle
    /\ DefsIdle
    /\ CmdIdle
    /\ threaded_scan = TRUE
    /\ abort_run = FALSE
    /\ \E ms \in SUBSET ModuleIdStrings, txs \in SUBSET TxStrings :
          /\ Cardinality(ms) \in 1..2
          /\ Cardinality(txs) \in 1..Cardinality(ms)
          /\ cfg_keys = ms \cup {TxPrefix \o tx : tx \in txs}
    /\ thread_name \in cfg_keys
    /\ current_handle \in {<<>>} \cup {<<k>> : k \in cfg_keys}
    /\ handle_pc = "call"
    /\ handle_result = [err |-> "none", val |-> <<>>]

\* lines 135-146
CurrentModuleHandle ==
    /\ handle_pc = "call"
    /\ handle_pc' = "done"
    /\ handle_result' =
          IF current_handle = <<>>
          THEN LET module_handles == {k \in cfg_keys : IsSubstring(k, thread_name)}
               IN  IF Cardinality(module_handles) > 1
                   THEN [err |-> "RuntimeError", val |-> <<>>]
                   ELSE IF module_handles = {}
                   THEN [err |-> "none", val |-> <<>>]
                   ELSE [err |-> "none", val |-> <<CHOOSE k \in module_handles : TRUE>>]
          ELSE [err |-> "none", val |-> current_handle]
    /\ UNCHANGED <<nothandle, cfg_keys, thread_name, current_handle>>

\* the thread goes on to read the property again
HandleAgain ==
    /\ handle_pc = "done"
    /\ handle_pc' = "call"
    /\ handle_result' = [err |-> "none", val |-> <<>>]
    /\ UNCHANGED <<nothandle, cfg_keys, thread_name, current_handle>>

NextHandle == CurrentModuleHandle \/ HandleAgain

SpecHandle == InitHandle /\ [][NextHandle]_vars

\* C35 (thread-to-handle resolution): in a thread named after module or group
\* X, with no handle selected, current_module_handle gives X, for every valid
\* set of module ids.
C35_ThreadResolvesOwnHandle ==
    (handle_pc = "done" /\ current_handle = <<>>) =>
        handle_result = [err |-> "none", val |-> <<thread_name>>]

\* C36 (abort message matches reported fault): under concurrent handle_err
\* calls, the fault passed to abort() first, which set the abort flag, is the
\* fault at the head of err_queue, the one post_run takes.
C36_AbortMatchesReported ==
    (abort_calls # <<>> /\ reported # <<>>) => abort_calls[1] = reported[1]

\* the callers inside a block `with self._readout_lock:` that tests and
\* starts or stops the reader
InCritical == {t \in Callers : pc[t] \in {"sr_crit", "st_crit", "ro_crit"}}

\* C37 (reader start/stop are guarded): a step that starts the reader is
\* taken by the one caller holding _readout_lock, inside start_readout, while
\* the reader is idle; a step that stops it is taken by the one caller
\* holding the lock, inside stop_readout or the abort path of readout(),
\* while the reader runs; so starts and stops alternate.
C37_ReaderGuarded ==
    [][/\ (~is_running /\ is_running') =>
             \E t \in Callers :
                /\ readout_lock = {t}
                /\ InCritical = {t}
                /\ pc[t] = "sr_crit"
                /\ pc'[t] # pc[t]
                /\ iv_starts' = CountUp(iv_starts)
                /\ UNCHANGED iv_stops
       /\ (is_running /\ ~is_running') =>
             \E t \in Callers :
                /\ readout_lock = {t}
                /\ InCritical = {t}
                /\ pc[t] \in {"st_crit", "ro_crit"}
                /\ pc'[t] # pc[t]
                /\ iv_stops' = CountUp(iv_stops)
                /\ UNCHANGED iv_starts
       /\ (iv_starts' # iv_starts /\ iv_starts' # 0) => (~is_running /\ is_running')
       /\ (iv_stops' # iv_stops /\ iv_stops' # 0) => (is_running /\ ~is_running')
      ]_vars

\* C37 witness: the abort path of readout() has stopped the reader while
\* another caller waits for the lock.
C37_Witness ==
    /\ ~is_running
    /\ stop_timeout = <<AbortTimeout>>
    /\ \E t \in Callers : pc[t] \in {"sr_lock", "st_lock", "ro_lock"}

\* C38 (readout context releases on every exit): when the `with
\* self.readout()` block of a caller has been left by an exception of its body
\* while the abort flag is clear, the handle of the caller is not in
\* _running_readout_t, and the reader is idle if no handle is registered.
C38_ReleasedOnException ==
    \A t \in Callers :
        (pc[t] = "raised" /\ t \in exc /\ ~abort_run) =>
            /\ Handle(t) \notin Members(running_readout_t)
            /\ Members(running_readout_t) = {} => ~is_running

\* C39 (scan-parameter update touches only the named parameter): after
\* set_scan_parameters(k=v) under handle h every module selected by h has
\* k = v and keeps every other parameter, and the modules not selected keep
\* all of theirs.
C39_OnlyNamedParameter ==
    [][sp_calls' = sp_calls + 1 =>
          LET h == last_set'[1]
              k == last_set'[2]
              v == last_set'[3]
          IN  \A m \in ParamModules :
                 IF m \in SelectedModules(h)
                 THEN /\ scan_params'[m][k] = v
                      /\ \A o \in ParamNames \ {k} : scan_params'[m][o] = scan_params[m][o]
                 ELSE scan_params'[m] = scan_params[m]
      ]_vars

\* ---------------------------------------------------------------------------
\* C40: do_run clears the stop_run event before every scan start, in all four
\* strategies: no scan() is about to be invoked in the main thread, and no
\* scan thread is alive, while stop_run still carries the set that was left
\* over from before do_run was entered.
C40_StopRunCleared ==
    /\ run_pc \in {"bs_scan", "is_scan"} => stop_run # "leftover"
    /\ \A h \in DOMAIN thr : thr[h] = "alive" => stop_run # "leftover"

\* the same statement for the three strategies that are not broadcast + threaded
C40_ClearedOutsideBroadcastThreaded ==
    ~(threaded_scan /\ broadcast_commands) => C40_StopRunCleared

\* ---------------------------------------------------------------------------
\* C34: in the individual + threaded strategy at most one scan thread is alive
\* per command-line group in every reachable state (no two modules that share
\* a TX are scanned concurrently), so the number of alive scan threads never
\* exceeds the number of command lines.
AliveThreads == {h \in DOMAIN thr : thr[h] = "alive"}

C34_OneScanPerCommandLine ==
    (threaded_scan /\ ~broadcast_commands) =>
        /\ \A i \in DOMAIN tx_groups :
              Cardinality({k \in DOMAIN tx_groups[i] : tx_groups[i][k] \in AliveThreads}) <= 1
        /\ Cardinality(AliveThreads) <= Len(tx_groups)

\* two scan threads of different command lines are alive at once
C34_Witness ==
    /\ threaded_scan /\ ~broadcast_commands
    /\ Len(tx_groups) = 2
    /\ Len(tx_groups[1]) = 2
    /\ Cardinality(AliveThreads) = 2
    /\ calls # <<>> /\ calls[Len(calls)][1] = "start"

====
